---- MODULE Spec2Model ----
(***************************************************************************)
(* StudyBuddy (src/app.js): content lifecycle and quiz engine.             *)
(*                                                                         *)
(* The model follows the class StudyBuddyApp.  Handlers are the methods    *)
(* the page invokes through the global `app`; a handler is enabled while   *)
(* the view that carries its control is data.currentView, and inside the   *)
(* quiz view while the panel that carries it (quiz-controls or             *)
(* quiz-results) is the one the code left visible.                         *)
(*                                                                         *)
(* JavaScript indices are kept 0-based: At(s, i) reads s[i].               *)
(* Strings of the page (option texts, stems) are small integers.           *)
(***************************************************************************)
EXTENDS Integers, Sequences, FiniteSets, TLC

(***************************************************************************)
(* Bounds of the model.                                                    *)
(***************************************************************************)
MaxItems == 2        \* items of a pasted quiz document (pure-parser runs)
MaxOptions == 5      \* options of one pasted quiz item
MaxCorrect == 2      \* options of one pasted item flagged isCorrect: true
MaxAttempts == 2     \* finished attempts kept per quiz slot (attempt runs)
MaxFinishes == 1     \* finished attempts kept per quiz slot (quiz runs)
MaxChoice == 1       \* highest option index a learner selects (0..MaxChoice)
MaxClock == 1        \* seconds the wall clock advances in the timed runs
MaxDay == 1          \* days that pass in the study runs
MaxGrades == 4       \* grades given to the card of the grading runs
MaxStudyGrades == 2  \* grades given in the study runs
StreakLen == 8       \* Hard grades behind the seasoned card of the grading runs
MaxTopics == 2       \* topics of the course in the study-queue runs
MaxLines == 3        \* lines of a structure response

(***************************************************************************)
(* Program constants.                                                      *)
(***************************************************************************)
quizMasteryThreshold == 70
OptionsPerQuestion == 4

Null == -1           \* JS null / undefined / findIndex miss, for number fields

At(s, i) == s[i + 1]

Max(a, b) == IF a > b THEN a ELSE b
Range(s) == { s[i] : i \in DOMAIN s }

\* Math.round for a non-negative quotient n/d: floor(n/d + 1/2)
MathRound(n, d) == (2 * n + d) \div (2 * d)

(***************************************************************************)
(* Pasted responses.  A response is the text of the textarea, abstracted   *)
(* to what the parser looks at:                                            *)
(*   blank    - the text trims to the empty string                         *)
(*   fenced   - the text holds a ``` block (its interior is what is parsed)*)
(*   parses   - JSON.parse of the block interior / the trimmed text works  *)
(*   json     - the parsed value when it does                              *)
(*   heading  - some line of the trimmed text matches /^#+\s/              *)
(* A JSON value is abstracted to what the parser reads from it.            *)
(***************************************************************************)
\* An option's `text` value: a string (1..99), an object that itself has a
\* `text` key (100 + the inner string), or undefined (0)
UndefinedText == 0
ObjectTextBase == 100
TextObject(inner) == ObjectTextBase + inner
IsTextObject(v) == v > ObjectTextBase
InnerText(v) == v - ObjectTextBase

JsonOption(t, c) == [text |-> t, isCorrect |-> c]
JsonItem(stem, opts) == [stem |-> stem, options |-> opts]
JsonCard(id, front) == [id |-> id, front |-> front]

\* truthy: the value is not null/0/false/""; the *Kind fields say whether the
\* key is absent, holds an array, or holds something else
JsonDoc(truthy, sv, ik, items, ck, cards) ==
    [truthy |-> truthy, schema_version |-> sv,
     itemsKind |-> ik, items |-> items, cardsKind |-> ck, cards |-> cards]

JsonNull == JsonDoc(FALSE, "none", "absent", <<>>, "absent", <<>>)
JsonPlainObject == JsonDoc(TRUE, "none", "absent", <<>>, "absent", <<>>)
QuizDoc(sv, items) == JsonDoc(TRUE, sv, "array", items, "absent", <<>>)
CardsDoc(sv, cards) == JsonDoc(TRUE, sv, "absent", <<>>, "array", cards)

Response(blank, fenced, parses, json, heading) ==
    [blank |-> blank, fenced |-> fenced, parses |-> parses, json |-> json,
     heading |-> heading]

BlankResponse == Response(TRUE, FALSE, FALSE, JsonNull, FALSE)
MarkdownResponse == Response(FALSE, FALSE, FALSE, JsonNull, TRUE)
PlainTextResponse == Response(FALSE, FALSE, FALSE, JsonNull, FALSE)
JsonResponse(doc) == Response(FALSE, FALSE, TRUE, doc, FALSE)
FencedResponse(doc, heading) == Response(FALSE, TRUE, TRUE, doc, heading)

\* extractJsonFromText: the parsed value, or null when nothing parses
extractJsonFromText(text) ==
    IF text.parses THEN text.json ELSE JsonNull

(***************************************************************************)
(* parseContentResponse                                                    *)
(***************************************************************************)
\* options.findIndex(o => o.isCorrect === true)
RECURSIVE FindIndexFrom(_, _)
FindIndexFrom(options, i) ==
    IF i >= Len(options) THEN Null
    ELSE IF At(options, i).isCorrect = TRUE THEN i
         ELSE FindIndexFrom(options, i + 1)

findCorrectIndex(options) == FindIndexFrom(options, 0)

\* the object the .map callback builds for one item (index is 0-based)
MapQuizItem(item, index) ==
    [id |-> index + 1,
     text |-> item.stem,
     options |-> [i \in 1 .. Len(item.options) |-> item.options[i].text],
     correctAnswer |-> findCorrectIndex(item.options)]

\* the .filter callback: q.options?.length === 4 && q.correctAnswer !== null
KeepQuestion(q) ==
    Len(q.options) = OptionsPerQuestion /\ q.correctAnswer # Null

RECURSIVE FilterQuestions(_)
FilterQuestions(qs) ==
    IF qs = <<>> THEN <<>>
    ELSE IF KeepQuestion(Head(qs)) THEN <<Head(qs)>> \o FilterQuestions(Tail(qs))
         ELSE FilterQuestions(Tail(qs))

ParsedQuestions(items) ==
    FilterQuestions([i \in 1 .. Len(items) |-> MapQuizItem(items[i], i - 1)])

ErrorResult(msg) == [schema_version |-> "none", error |-> msg]
IsError(parsed) == "error" \in DOMAIN parsed

\* 'c' + (i + 1) for the card at 0-based index i, here the card at position n
DefaultId(n) == 100 + n

parseFlashcards(maybeJson) ==
    IF maybeJson.truthy
       /\ (maybeJson.schema_version = "flashcards_v1" \/ maybeJson.cardsKind = "array")
    THEN LET src == IF maybeJson.cardsKind = "array" THEN maybeJson.cards ELSE <<>>
             cards == [i \in 1 .. Len(src) |->
                          [id |-> IF src[i].id # Null THEN src[i].id ELSE DefaultId(i),
                           front |-> src[i].front]]
         IN [schema_version |-> "flashcards_v1", cards |-> cards,
             totalCards |-> Len(cards)]
    ELSE ErrorResult("flashcards-not-json")

parseQuiz(maybeJson) ==
    IF maybeJson.truthy
       /\ (maybeJson.schema_version = "quiz_mcq_v1" \/ maybeJson.itemsKind = "array")
    THEN LET src == IF maybeJson.itemsKind = "array" THEN maybeJson.items ELSE <<>>
             questions == ParsedQuestions(src)
         IN IF Len(questions) = 0 THEN ErrorResult("quiz-no-valid-items")
            ELSE [schema_version |-> "quiz_mcq_v1", questions |-> questions,
                  totalQuestions |-> Len(questions)]
    ELSE ErrorResult("quiz-not-json")

parseReading(response, maybeJson) ==
    IF maybeJson.truthy THEN ErrorResult("reading-is-json")
    ELSE IF response.blank THEN ErrorResult("reading-empty")
    ELSE IF ~response.heading THEN ErrorResult("reading-no-heading")
    ELSE [schema_version |-> "md_v1", markdown |-> response]

parseContentResponse(response, type) ==
    LET maybeJson == extractJsonFromText(response)
    IN IF type = "flashcards" THEN parseFlashcards(maybeJson)
       ELSE IF type = "quiz" THEN parseQuiz(maybeJson)
       ELSE parseReading(response, maybeJson)

(***************************************************************************)
(* State.  One course with one topic is open (data.currentCourse,          *)
(* data.currentTopic); contentSlots is that topic's slot map.              *)
(***************************************************************************)
VARIABLES
    contentSlots,    \* data.courses[c].topics[t].contentSlots
    persisted,       \* the slot map inside localStorage['studyBuddyData']
    saveCalled,      \* the last handler reached saveData()
    currentView,     \* data.currentView
    currentContent,  \* data.currentContent.type
    currentQuiz,     \* this.currentQuiz
    quizControls,    \* #quiz-controls is displayed
    quizResults,     \* #quiz-results is displayed
    quizTimer,       \* the setInterval callbacks of startQuizTimer still scheduled
    lastOp,          \* the handler invoked last (finishQuiz when a submit ran it)
    finishedBest,    \* history: bestScore as the latest finishQuiz left it
    pResponse,       \* pure-parser runs: the response under test
    pType,           \* pure-parser runs: the content type under test
    pResult,         \* pure-parser runs: what parseContentResponse returned
    now,             \* the wall clock read by Date.now(), in seconds
    today,           \* the UTC calendar day _today() returns, as a day number
    flash,           \* this._flash, the flashcards study session
    grades,          \* history: grades given since the start
    studyLog,        \* history of the study session: cards due at its opening,
                     \* cards shown, cards graded Again, those of them not
                     \* shown since, quality of the latest grade
    topics,          \* the topics of data.courses in iteration order; the entry
                     \* of the open topic is a placeholder, its maps are
                     \* contentSlots and persisted
    currentTopic,    \* position of data.currentTopic in topics, 0 for none
    studyQueue,      \* what loadStudyView left in #study-queue
    structureAnalyzed, \* course.structureAnalyzed of the course
    settings,        \* data.settings of the current Data tree
    prefControls,    \* the object `pp` the preference listeners write to, and
                     \* whether it is data.settings.personalization
    stored           \* localStorage['studyBuddyData'] apart from the slot maps:
                     \* the topic list, the course's flag, the settings

vars == <<contentSlots, persisted, saveCalled, currentView, currentContent,
          currentQuiz, quizControls, quizResults, quizTimer, lastOp, finishedBest,
          pResponse, pType, pResult, now, today, flash, grades, studyLog,
          topics, currentTopic, studyQueue,
          structureAnalyzed, settings, prefControls, stored>>

parserVars == <<pResponse, pType, pResult>>
\* what the handlers of the quiz runs never write
studyVars == <<today, flash, grades, studyLog>>
queueVars == <<topics, currentTopic, studyQueue>>
\* the course flag and the settings, written by the course and settings handlers
dataVars == <<structureAnalyzed, settings, prefControls>>
nonQuizVars == <<parserVars, now, studyVars, queueVars, dataVars>>
quizVars == <<currentQuiz, quizControls, quizResults, quizTimer>>

ContentTypes == {"summary", "flashcards", "quiz", "explainer", "practice", "review"}
ReadingTypes == {"summary", "explainer", "practice", "review"}

NullContent == [schema_version |-> "null"]
NullRaw == BlankResponse
NullStamp == 0
NowStamp == 1        \* new Date().toISOString()

Slot(status, content, raw, stamp, completed, hasA, attempts, hasB, best) ==
    [status |-> status, content |-> content, rawResponse |-> raw,
     lastUpdated |-> stamp, completed |-> completed,
     hasAttempts |-> hasA, attempts |-> attempts,
     hasBestScore |-> hasB, bestScore |-> best,
     hasSrs |-> FALSE, srs |-> <<>>]

\* createEmptyContentSlots: the quiz slot alone carries attempts and
\* bestScore, the flashcards slot alone carries srs: { cards: {} }; `srs` is
\* the map srs.cards, from card id to CardState
createEmptyContentSlots ==
    [type \in ContentTypes |->
        IF type = "quiz"
        THEN Slot("empty", NullContent, NullRaw, NullStamp, FALSE, TRUE, <<>>, TRUE, 0)
        ELSE IF type = "flashcards"
        THEN [Slot("empty", NullContent, NullRaw, NullStamp, FALSE, FALSE, <<>>, FALSE, Null)
                 EXCEPT !.hasSrs = TRUE]
        ELSE Slot("empty", NullContent, NullRaw, NullStamp, FALSE, FALSE, <<>>, FALSE, Null)]

\* the object literal deleteContent assigns: five keys, no attempts, no
\* bestScore, no srs
DeletedSlot ==
    Slot("empty", NullContent, NullRaw, NullStamp, FALSE, FALSE, <<>>, FALSE, Null)

NoQuiz ==
    [exists |-> FALSE, questions |-> <<>>, currentQuestion |-> 0, answers |-> <<>>,
     startTime |-> 0]

\* the session object loadQuizView and retakeQuiz build at clock reading `time`
NewQuiz(questions, time) ==
    [exists |-> TRUE, questions |-> questions, currentQuestion |-> 0,
     answers |-> [i \in 1 .. Len(questions) |-> Null],
     startTime |-> time]

\* no interval scheduled.  `own` is the interval whose id this.currentQuiz.timer
\* holds; `orphan` says that an interval of a session object that was dropped
\* is scheduled, its id held by nothing
NoTimer == [watched |-> TRUE, own |-> FALSE, orphan |-> FALSE]

\* the intervals left out of view: the runs that are not about the timer carry
\* this value, which stands for any set of intervals and which every timer
\* operation keeps
Unwatched == [watched |-> FALSE, own |-> FALSE, orphan |-> FALSE]

\* clearInterval(this.currentQuiz.timer)
Cleared(timer) ==
    IF timer.watched THEN [timer EXCEPT !.own = FALSE] ELSE timer

\* this.currentQuiz = {..., timer: null} : the new object holds no id, the
\* interval of the object it replaces stays scheduled
Replaced(timer) ==
    IF timer.watched
    THEN [timer EXCEPT !.own = FALSE, !.orphan = timer.orphan \/ timer.own]
    ELSE timer

\* startQuiz : displayQuizQuestion throws on `q.text` when the session has no
\* question, and startQuizTimer is not reached
startQuiz(timer, questions) ==
    IF timer.watched /\ Len(questions) > 0 THEN [timer EXCEPT !.own = TRUE] ELSE timer

\* this._flash = null
NoFlash ==
    [active |-> FALSE, deck |-> <<>>, index |-> 0, showBack |-> FALSE,
     seen |-> 0, correct |-> 0, total |-> 0]

\* nothing logged: no session has been opened
NoLog == [dueAtOpen |-> {}, shown |-> {}, again |-> {}, pending |-> {}, quality |-> Null]

\* the entry `topics` keeps for the open topic
OpenTopicEntry(name) ==
    [name |-> name, contentSlots |-> createEmptyContentSlots,
     persisted |-> createEmptyContentSlots]

\* one course with one topic, which is open
OneTopic == <<OpenTopicEntry(1)>>

\* #study-queue before loadStudyView has run
NoQueue == [nothing |-> FALSE, items |-> <<>>, shown |-> <<>>]

\* settings.personalization once the constructor and migrateDataSchema ran
StartupPersonalization ==
    [depth |-> "standard", examples |-> "medium", rigor |-> "light", readTime |-> 10,
     difficulty |-> "Intermediate", citation |-> "minimal", flashcardsCount |-> 15]

StartupSettings == [personalization |-> StartupPersonalization]

\* _initPreferenceControls, called once from setupEventListeners:
\* const pp = this.data.settings.personalization || this._getDefaultPrefs()
StartupControls == [pp |-> StartupPersonalization, attached |-> TRUE]

\* a topic without its slot maps
TopicMeta(ts) ==
    [k \in 1 .. Len(ts) |->
        [f \in DOMAIN ts[k] \ {"contentSlots", "persisted"} |-> ts[k][f]]]

\* JSON.stringify(this.data) apart from the slot maps
Document(ts, analyzed, st) ==
    [topics |-> TopicMeta(ts), structureAnalyzed |-> analyzed, settings |-> st]

\* localStorage.removeItem('studyBuddyData')
NoDocument == [removed |-> TRUE]

\* variant: setItem is never reached
saveData_Skipped(slots) ==
    /\ persisted' = persisted
    /\ saveCalled' = TRUE
    /\ stored' = stored

\* saveData: JSON.stringify(this.data) into localStorage, `slots` being the
\* slot map of the open topic; the handlers that call it with a slot map
\* leave the topic list and the settings as they are
saveData(slots) ==
    /\ persisted' = slots
    /\ saveCalled' = TRUE
    /\ stored' = Document(topics, structureAnalyzed, settings)

NoSave ==
    /\ persisted' = persisted
    /\ saveCalled' = FALSE
    /\ stored' = stored

(***************************************************************************)
(* Navigation                                                              *)
(***************************************************************************)
\* openContent -> showView('content') -> loadContentView
OpenContent(type) ==
    /\ currentView = "topic-detail"
    /\ currentView' = "content"
    /\ currentContent' = type
    /\ lastOp' = "openContent"
    /\ NoSave
    /\ UNCHANGED <<contentSlots, quizVars, nonQuizVars, finishedBest>>

\* goBack from the content view or the quiz view
GoBack ==
    /\ currentView \in {"content", "quiz"}
    /\ currentView' = "topic-detail"
    /\ lastOp' = "goBack"
    /\ NoSave
    /\ UNCHANGED <<contentSlots, currentContent, quizVars, nonQuizVars, finishedBest>>

(***************************************************************************)
(* markContentCompleted / unmarkContentCompleted                           *)
(***************************************************************************)
markContentCompleted(type) ==
    /\ currentView = "topic-detail"
    /\ lastOp' = "markContentCompleted"
    /\ IF contentSlots[type].status = "empty"
       THEN /\ NoSave
            /\ UNCHANGED contentSlots
       ELSE /\ contentSlots' = [contentSlots EXCEPT ![type].completed = TRUE,
                                                    ![type].lastUpdated = NowStamp]
            /\ saveData(contentSlots')
    /\ UNCHANGED <<currentView, currentContent, quizVars, nonQuizVars, finishedBest>>

unmarkContentCompleted(type) ==
    /\ currentView = "topic-detail"
    /\ lastOp' = "unmarkContentCompleted"
    /\ contentSlots' = [contentSlots EXCEPT ![type].completed = FALSE,
                                             ![type].lastUpdated = NowStamp]
    /\ saveData(contentSlots')
    /\ UNCHANGED <<currentView, currentContent, quizVars, nonQuizVars, finishedBest>>

(***************************************************************************)
(* saveContent / deleteContent                                             *)
(***************************************************************************)
\* variant: a quiz save that starts the history over
NewSlot_ResetHistory(prevSlot, parsed, response, type) ==
    LET base == [prevSlot EXCEPT !.status = "filled",
                                 !.content = parsed,
                                 !.rawResponse = response,
                                 !.lastUpdated = NowStamp,
                                 !.completed = (prevSlot.completed = TRUE)]
    IN IF type = "quiz"
       THEN [base EXCEPT !.hasAttempts = TRUE, !.attempts = <<>>,
                         !.hasBestScore = TRUE, !.bestScore = 0]
       ELSE base

\* variant: a save takes the completion mark away
NewSlot_Uncompleted(prevSlot, parsed, response, type) ==
    LET base == [prevSlot EXCEPT !.status = "filled",
                                 !.content = parsed,
                                 !.rawResponse = response,
                                 !.lastUpdated = NowStamp,
                                 !.completed = FALSE]
    IN IF type = "quiz"
       THEN [base EXCEPT !.hasAttempts = TRUE,
                         !.attempts = IF prevSlot.hasAttempts THEN prevSlot.attempts ELSE <<>>,
                         !.hasBestScore = TRUE,
                         !.bestScore = IF prevSlot.hasBestScore THEN prevSlot.bestScore ELSE 0]
       ELSE IF type = "flashcards"
       THEN [base EXCEPT !.hasSrs = TRUE,
                         !.srs = IF prevSlot.hasSrs THEN prevSlot.srs ELSE <<>>]
       ELSE base

\* variant: a flashcards save that starts from an empty srs map
NewSlot_ResetSrs(prevSlot, parsed, response, type) ==
    LET base == [prevSlot EXCEPT !.status = "filled",
                                 !.content = parsed,
                                 !.rawResponse = response,
                                 !.lastUpdated = NowStamp,
                                 !.completed = (prevSlot.completed = TRUE)]
    IN IF type = "quiz"
       THEN [base EXCEPT !.hasAttempts = TRUE,
                         !.attempts = IF prevSlot.hasAttempts THEN prevSlot.attempts ELSE <<>>,
                         !.hasBestScore = TRUE,
                         !.bestScore = IF prevSlot.hasBestScore THEN prevSlot.bestScore ELSE 0]
       ELSE IF type = "flashcards"
       THEN [base EXCEPT !.hasSrs = TRUE, !.srs = <<>>]
       ELSE base

\* the slot saveContent builds from the previous slot and the parse result
NewSlot(prevSlot, parsed, response, type) ==
    LET base == [prevSlot EXCEPT !.status = "filled",
                                 !.content = parsed,
                                 !.rawResponse = response,
                                 !.lastUpdated = NowStamp,
                                 !.completed = (prevSlot.completed = TRUE)]
    IN IF type = "quiz"
       THEN [base EXCEPT !.hasAttempts = TRUE,
                         !.attempts = IF prevSlot.hasAttempts THEN prevSlot.attempts ELSE <<>>,
                         !.hasBestScore = TRUE,
                         !.bestScore = IF prevSlot.hasBestScore THEN prevSlot.bestScore ELSE 0]
       ELSE IF type = "flashcards"
       THEN \* newSlot.srs = prevSlot.srs || { cards: {} }
            [base EXCEPT !.hasSrs = TRUE,
                         !.srs = IF prevSlot.hasSrs THEN prevSlot.srs ELSE <<>>]
       ELSE base

saveContent(response) ==
    /\ currentView = "content"
    /\ lastOp' = "saveContent"
    /\ IF response.blank
       THEN \* 'Please paste the AI response'
            /\ NoSave
            /\ UNCHANGED <<contentSlots, currentView>>
       ELSE LET type == currentContent
                parsed == parseContentResponse(response, type)
            IN \* `if (!parsed)`: every result, the error results too, is an object
               /\ contentSlots' = [contentSlots EXCEPT
                                     ![type] = NewSlot(contentSlots[type], parsed, response, type)]
               /\ saveData(contentSlots')
               /\ currentView' = IF type = "quiz" THEN "topic-detail" ELSE "content"
    /\ UNCHANGED <<currentContent, quizVars, nonQuizVars, finishedBest>>

\* variant: the emptied slot keeps the completion flag it had
Deleted_KeepsCompleted(slots, type) ==
    [k \in DOMAIN slots \cup {type} |->
        IF k # type THEN slots[k]
        ELSE IF type \in DOMAIN slots
             THEN [DeletedSlot EXCEPT !.completed = slots[type].completed]
             ELSE DeletedSlot]

\* variant: delete contentSlots[type]
Deleted_RemovesKey(slots, type) ==
    [k \in DOMAIN slots \ {type} |-> slots[k]]

\* contentSlots[type] = { status: 'empty', ... }: the key is set, added when
\* the map lacks it
Deleted(slots, type) ==
    [k \in DOMAIN slots \cup {type} |-> IF k = type THEN DeletedSlot ELSE slots[k]]

deleteContent ==
    /\ currentView = "content"
    /\ lastOp' = "deleteContent"
    /\ contentSlots' = Deleted(contentSlots, currentContent)
    /\ saveData(contentSlots')
    /\ UNCHANGED <<currentView, currentContent, quizVars, nonQuizVars, finishedBest>>

(***************************************************************************)
(* Quiz engine                                                             *)
(***************************************************************************)
\* loadQuizView's .filter callback on a stored question
SessionKeeps(q) ==
    Len(q.options) = OptionsPerQuestion /\ q.correctAnswer # Null

\* loadQuizView's .map callback: a question whose first option has a `text`
\* property is taken for a raw item and rebuilt from option objects; the
\* stored options are the values of `o.text`, so `o.isCorrect` is undefined
\* on every one of them and `o.text` is defined on text objects only
SessionQuestion(q) ==
    IF IsTextObject(At(q.options, 0))
    THEN [id |-> q.id,
          text |-> q.text,
          options |-> [i \in 1 .. Len(q.options) |->
                          IF IsTextObject(q.options[i]) THEN InnerText(q.options[i])
                          ELSE UndefinedText],
          correctAnswer |-> Null]
    ELSE q

RECURSIVE SessionQuestions(_)
SessionQuestions(qs) ==
    IF qs = <<>> THEN <<>>
    ELSE IF SessionKeeps(Head(qs))
         THEN <<SessionQuestion(Head(qs))>> \o SessionQuestions(Tail(qs))
         ELSE SessionQuestions(Tail(qs))

\* slot.content.questions || slot.content.items || []
StoredQuestions(content) ==
    IF "questions" \in DOMAIN content THEN content.questions ELSE <<>>

\* openQuiz -> showView('quiz') -> loadQuizView
loadQuizView ==
    /\ currentView = "topic-detail"
    /\ lastOp' = "loadQuizView"
    /\ NoSave
    /\ LET slot == contentSlots["quiz"]
       IN IF slot.status = "empty" \/ slot.content = NullContent
          THEN \* 'No quiz available' and goBack()
               /\ currentView' = "topic-detail"
               /\ UNCHANGED quizVars
          ELSE /\ currentView' = "quiz"
               /\ currentQuiz' = NewQuiz(SessionQuestions(StoredQuestions(slot.content)), now)
               /\ quizResults' = FALSE
               /\ quizControls' = TRUE
               /\ quizTimer' = startQuiz(Replaced(quizTimer), currentQuiz'.questions)
    /\ UNCHANGED <<contentSlots, currentContent, nonQuizVars, finishedBest>>

\* answers[i] = v on a JS array: an index at the end extends the array
SetAnswer(answers, i, v) ==
    IF i < Len(answers) THEN [answers EXCEPT ![i + 1] = v] ELSE Append(answers, v)

\* the forEach of finishQuiz
RECURSIVE CountCorrect(_, _, _)
CountCorrect(questions, answers, idx) ==
    IF idx >= Len(answers) THEN 0
    ELSE (IF At(answers, idx) # Null
             /\ At(answers, idx) = At(questions, idx).correctAnswer
          THEN 1 ELSE 0)
         + CountCorrect(questions, answers, idx + 1)

QuizScore(questions, answers) == CountCorrect(questions, answers, 0)

\* variant: Math.floor in place of Math.round
Percentage_Floor(score, total) == (100 * score) \div total

\* Math.round((score / total) * 100)
Percentage(score, total) == MathRound(100 * score, total)

\* variant: the latest percentage overwrites the best
BestScoreAfter_Latest(slot, percentage) == percentage

\* Math.max(slot.bestScore || 0, percentage)
BestScoreAfter(slot, percentage) ==
    Max(IF slot.hasBestScore THEN slot.bestScore ELSE 0, percentage)

\* variant: slot.completed = (slot.bestScore >= this.quizMasteryThreshold)
CompletedAfter_Assign(slot, best) == best >= quizMasteryThreshold

\* if (slot.bestScore >= this.quizMasteryThreshold) slot.completed = true
CompletedAfter(slot, best) ==
    IF best >= quizMasteryThreshold THEN TRUE ELSE slot.completed

\* the attempt finishQuiz records at clock reading `time`
Attempt(quiz, time) ==
    LET score == QuizScore(quiz.questions, quiz.answers)
        total == Len(quiz.questions)
    IN [score |-> score, total |-> total,
        percentage |-> Percentage(score, total),
        timeSpent |-> time - quiz.startTime,
        date |-> time,
        answers |-> quiz.answers]

\* finishQuiz on the session `quiz`
finishQuiz(quiz) ==
    LET slot == contentSlots["quiz"]
        attempt == Attempt(quiz, now)
        best == BestScoreAfter(slot, attempt.percentage)
    IN /\ contentSlots' = [contentSlots EXCEPT !["quiz"] =
              [slot EXCEPT !.hasAttempts = TRUE,
                           !.attempts = Append(IF slot.hasAttempts THEN slot.attempts ELSE <<>>,
                                               attempt),
                           !.hasBestScore = TRUE,
                           !.bestScore = best,
                           !.completed = CompletedAfter(slot, best),
                           !.lastUpdated = NowStamp]]
       /\ saveData(contentSlots')
       /\ quizResults' = TRUE
       /\ quizControls' = FALSE
       /\ quizTimer' = Cleared(quizTimer)
       /\ finishedBest' = best

NoSelection == Null
Selections == {NoSelection} \cup (0 .. MaxChoice)

submitQuizAnswer(selected) ==
    /\ currentView = "quiz"
    /\ currentQuiz.exists
    /\ quizControls
    /\ IF selected = NoSelection
       THEN \* 'Please select an answer'
            /\ lastOp' = "submitQuizAnswer"
            /\ NoSave
            /\ UNCHANGED <<contentSlots, quizVars, finishedBest>>
       ELSE LET cur == currentQuiz.currentQuestion
                quiz == [currentQuiz EXCEPT !.answers = SetAnswer(@, cur, selected)]
            IN /\ currentQuiz' = quiz
               /\ IF cur >= Len(quiz.questions)
                  THEN \* q is undefined: `q.correctAnswer` throws
                       /\ lastOp' = "submitQuizAnswer"
                       /\ NoSave
                       /\ UNCHANGED <<contentSlots, quizControls, quizResults, quizTimer, finishedBest>>
                  ELSE IF cur = Len(quiz.questions) - 1
                  THEN /\ lastOp' = "finishQuiz"
                       /\ finishQuiz(quiz)
                  ELSE /\ lastOp' = "submitQuizAnswer"
                       /\ NoSave
                       /\ UNCHANGED <<contentSlots, quizControls, quizResults, quizTimer, finishedBest>>
    /\ UNCHANGED <<currentView, currentContent, nonQuizVars>>

\* a submit that answers the last question, the one that calls finishQuiz
FinishingSubmit(selected) ==
    /\ selected # NoSelection
    /\ currentQuiz.exists
    /\ currentQuiz.currentQuestion = Len(currentQuiz.questions) - 1

\* the submit button, a finishing submit only while the slot keeps fewer than
\* `cap` attempts
SubmitUpTo(cap) ==
    \E selected \in Selections :
        /\ FinishingSubmit(selected) => Len(contentSlots["quiz"].attempts) < cap
        /\ submitQuizAnswer(selected)

\* variant: the index moves without the bound test
nextQuizQuestion_NoBound ==
    /\ currentView = "quiz"
    /\ currentQuiz.exists
    /\ quizControls
    /\ lastOp' = "nextQuizQuestion"
    /\ NoSave
    /\ currentQuiz' = [currentQuiz EXCEPT !.currentQuestion = @ + 1]
    /\ UNCHANGED <<contentSlots, currentView, currentContent, quizControls,
                   quizResults, quizTimer, nonQuizVars, finishedBest>>

nextQuizQuestion ==
    /\ currentView = "quiz"
    /\ currentQuiz.exists
    /\ quizControls
    /\ lastOp' = "nextQuizQuestion"
    /\ NoSave
    /\ IF currentQuiz.currentQuestion < Len(currentQuiz.questions) - 1
       THEN currentQuiz' = [currentQuiz EXCEPT !.currentQuestion = @ + 1]
       ELSE UNCHANGED currentQuiz
    /\ UNCHANGED <<contentSlots, currentView, currentContent, quizControls,
                   quizResults, quizTimer, nonQuizVars, finishedBest>>

prevQuizQuestion ==
    /\ currentView = "quiz"
    /\ currentQuiz.exists
    /\ quizControls
    /\ lastOp' = "prevQuizQuestion"
    /\ NoSave
    /\ IF currentQuiz.currentQuestion > 0
       THEN currentQuiz' = [currentQuiz EXCEPT !.currentQuestion = @ - 1]
       ELSE UNCHANGED currentQuiz
    /\ UNCHANGED <<contentSlots, currentView, currentContent, quizControls,
                   quizResults, quizTimer, nonQuizVars, finishedBest>>

\* variant: the retake keeps the start time of the session it replaces
retakeQuiz_KeepsStart ==
    /\ currentView = "quiz"
    /\ currentQuiz.exists
    /\ ~quizControls
    /\ lastOp' = "retakeQuiz"
    /\ NoSave
    /\ currentQuiz' = NewQuiz(currentQuiz.questions, currentQuiz.startTime)
    /\ quizResults' = FALSE
    /\ quizControls' = TRUE
    /\ quizTimer' = startQuiz(Replaced(Cleared(quizTimer)), currentQuiz'.questions)
    /\ UNCHANGED <<contentSlots, currentView, currentContent, nonQuizVars, finishedBest>>

retakeQuiz ==
    /\ currentView = "quiz"
    /\ currentQuiz.exists
    /\ ~quizControls
    /\ lastOp' = "retakeQuiz"
    /\ NoSave
    /\ currentQuiz' = NewQuiz(currentQuiz.questions, now)
    /\ quizResults' = FALSE
    /\ quizControls' = TRUE
    /\ quizTimer' = startQuiz(Replaced(Cleared(quizTimer)), currentQuiz'.questions)
    /\ UNCHANGED <<contentSlots, currentView, currentContent, nonQuizVars, finishedBest>>

\* variant: the review starts from a cleared answer array
reviewQuizAnswers_Reset ==
    /\ currentView = "quiz"
    /\ currentQuiz.exists
    /\ ~quizControls
    /\ lastOp' = "reviewQuizAnswers"
    /\ NoSave
    /\ quizResults' = FALSE
    /\ currentQuiz' = NewQuiz(currentQuiz.questions, now)
    /\ UNCHANGED <<contentSlots, currentView, currentContent,
                   quizControls, quizTimer, nonQuizVars, finishedBest>>

reviewQuizAnswers ==
    /\ currentView = "quiz"
    /\ currentQuiz.exists
    /\ ~quizControls
    /\ lastOp' = "reviewQuizAnswers"
    /\ NoSave
    /\ quizResults' = FALSE
    /\ UNCHANGED <<contentSlots, currentView, currentContent, currentQuiz,
                   quizControls, quizTimer, nonQuizVars, finishedBest>>

(***************************************************************************)
(* Flashcards study: SRS card states and the session deck                  *)
(***************************************************************************)
Min(a, b) == IF a <= b THEN a ELSE b

\* ease is kept in hundredths: 2.5 is 250, the floor 1.3 is 130
InitialEase == 250
MinEase == 130

\* the grade buttons: 1 = Again, 3 = Hard, 4 = Good, 5 = Easy
Qualities == {1, 3, 4, 5}

\* _addDays(n): setDate moves the LOCAL calendar day and keeps the local time
\* of day, toISOString then reads the UTC day.  When a daylight-saving change
\* lies in between, the instant is n*24h -1h or +1h away, and within the hour
\* around UTC midnight the UTC day is one less or one more than today + n.
DstShifts == {-1, 0, 1}
addDays(n, shift) == today + n + shift

\* srsRef[card.id] || { ease: 2.5, reps: 0, interval: 0, due: today, lastGrade: null }
NewCardState ==
    [ease |-> InitialEase, reps |-> 0, interval |-> 0, due |-> today, lastGrade |-> Null]

CardStateOf(srs, id) == IF id \in DOMAIN srs THEN srs[id] ELSE NewCardState

\* 0.1 - (5 - q) * (0.08 + (5 - q) * 0.02), in hundredths
EaseDelta(q) == 10 - (5 - q) * (8 + (5 - q) * 2)

\* the interval of a successful grade
NextInterval(st, q) ==
    IF st.reps = 0 THEN 1
    ELSE IF st.reps = 1 THEN 6
    ELSE MathRound(st.interval * st.ease, 100)

\* variant: no floor under the ease
NextEase_NoFloor(st, q) == st.ease + EaseDelta(q)

\* Math.max(1.3, st.ease + (0.1 - ...))
NextEase(st, q) == Max(MinEase, st.ease + EaseDelta(q))

\* variant: lastGrade is recorded in the success branch only
GradedState_SuccessOnly(st, q, shift) ==
    IF q < 3
    THEN [st EXCEPT !.reps = 0, !.interval = 0, !.due = today]
    ELSE [ease |-> NextEase(st, q),
          reps |-> st.reps + 1,
          interval |-> NextInterval(st, q),
          due |-> addDays(NextInterval(st, q), shift),
          lastGrade |-> q]

\* the SM-2 like update of _gradeFlashcard
GradedState(st, q, shift) ==
    IF q < 3
    THEN [st EXCEPT !.reps = 0, !.interval = 0, !.due = today, !.lastGrade = q]
    ELSE [ease |-> NextEase(st, q),
          reps |-> st.reps + 1,
          interval |-> NextInterval(st, q),
          due |-> addDays(NextInterval(st, q), shift),
          lastGrade |-> q]

\* srsRef[card.id] = st
PutCardState(srs, id, st) ==
    [k \in DOMAIN srs \cup {id} |-> IF k = id THEN st ELSE srs[k]]

\* deck.splice(pos, 0, card), pos counted from 0
InsertAt(deck, pos, card) ==
    SubSeq(deck, 1, pos) \o <<card>> \o SubSeq(deck, pos + 1, Len(deck))

\* variant: the repeat is put at the end of the deck
InsertPos_AtEnd(index, length) == length

\* Math.min(this._flash.index + 2, this._flash.deck.length)
InsertPos(index, length) == Min(index + 2, length)

\* isDue of openFlashcardsStudy: no state, or no due date, or due <= today
isDue(srs, card) ==
    \/ card.id \notin DOMAIN srs
    \/ srs[card.id].due <= today

RECURSIVE FilterDue(_, _, _)
FilterDue(srs, cards, wanted) ==
    IF cards = <<>> THEN <<>>
    ELSE IF isDue(srs, Head(cards)) = wanted
         THEN <<Head(cards)>> \o FilterDue(srs, Tail(cards), wanted)
         ELSE FilterDue(srs, Tail(cards), wanted)

\* variant: the cards in their stored order
StudyDeck_Stored(srs, cards) == cards

\* [...due, ...later]
StudyDeck(srs, cards) == FilterDue(srs, cards, TRUE) \o FilterDue(srs, cards, FALSE)

\* slot.content?.cards
StoredCards(content) ==
    IF "cards" \in DOMAIN content THEN content.cards ELSE <<>>

\* the log of a step that leaves the session `f` behind
Logged(log, f) ==
    IF f.active
    THEN [log EXCEPT !.shown = @ \cup {At(f.deck, f.index)},
                     !.pending = @ \ {At(f.deck, f.index)}]
    ELSE log

\* the "Study now" button of the flashcards content view
openFlashcardsStudy ==
    /\ currentView = "content"
    /\ currentContent = "flashcards"
    /\ ~flash.active
    /\ lastOp' = "openFlashcardsStudy"
    /\ NoSave
    /\ LET slot == contentSlots["flashcards"]
           cards == StoredCards(slot.content)
       IN IF slot.status = "empty" \/ Len(cards) = 0
          THEN \* 'No flashcards available'
               UNCHANGED <<contentSlots, flash, studyLog>>
          ELSE LET srs == IF slot.hasSrs THEN slot.srs ELSE <<>>
                   deck == StudyDeck(srs, cards)
               IN /\ contentSlots' = [contentSlots EXCEPT !["flashcards"].hasSrs = TRUE,
                                                          !["flashcards"].srs = srs]
                  /\ flash' = [active |-> TRUE, deck |-> deck, index |-> 0,
                               showBack |-> FALSE, seen |-> 0, correct |-> 0,
                               total |-> Len(deck)]
                  /\ studyLog' = [dueAtOpen |-> { c \in Range(cards) : isDue(srs, c) },
                                  shown |-> {At(deck, 0)},
                                  again |-> {},
                                  pending |-> {},
                                  quality |-> Null]
    /\ UNCHANGED <<currentView, currentContent, quizVars, parserVars, queueVars, dataVars, now, today,
                   grades, finishedBest>>

closeFlashcardsStudy ==
    /\ flash.active
    /\ lastOp' = "closeFlashcardsStudy"
    /\ flash' = NoFlash
    /\ saveData(contentSlots)
    /\ UNCHANGED <<contentSlots, currentView, currentContent, quizVars, parserVars, queueVars, dataVars,
                   now, today, grades, studyLog, finishedBest>>

flipFlashcard ==
    /\ flash.active
    /\ lastOp' = "flipFlashcard"
    /\ flash' = [flash EXCEPT !.showBack = ~@]
    /\ NoSave
    /\ UNCHANGED <<contentSlots, currentView, currentContent, quizVars, parserVars, queueVars, dataVars,
                   now, today, grades, studyLog, finishedBest>>

\* variant: the session is closed one card before the last
Advanced_ClosesEarly(f) ==
    IF f.index < f.total - 2
    THEN [f EXCEPT !.index = @ + 1, !.showBack = FALSE]
    ELSE NoFlash

\* _nextFlashcard on the session `f`: the next position, or the session closed
Advanced(f) ==
    IF f.index < f.total - 1
    THEN [f EXCEPT !.index = @ + 1, !.showBack = FALSE]
    ELSE NoFlash

nextFlashcard ==
    /\ flash.active
    /\ lastOp' = "nextFlashcard"
    /\ flash' = Advanced(flash)
    /\ studyLog' = Logged(studyLog, flash')
    /\ IF flash'.active THEN NoSave ELSE saveData(contentSlots)
    /\ UNCHANGED <<contentSlots, currentView, currentContent, quizVars, parserVars, queueVars, dataVars,
                   now, today, grades, finishedBest>>

prevFlashcard ==
    /\ flash.active
    /\ lastOp' = "prevFlashcard"
    /\ flash' = IF flash.index > 0
                THEN [flash EXCEPT !.index = @ - 1, !.showBack = FALSE]
                ELSE flash
    /\ studyLog' = Logged(studyLog, flash')
    /\ NoSave
    /\ UNCHANGED <<contentSlots, currentView, currentContent, quizVars, parserVars, queueVars, dataVars,
                   now, today, grades, finishedBest>>

\* variant: a card graded Again is not put back into the deck
Regraded_NoRepeat(f, card, quality) ==
    [f EXCEPT !.correct = IF quality < 3 THEN @ ELSE @ + 1,
              !.seen = Max(@, f.index + 1)]

\* variant: the repeat is spliced in and total keeps the old length
Regraded_StaleTotal(f, card, quality) ==
    LET deck == IF quality < 3
                THEN InsertAt(f.deck, InsertPos(f.index, Len(f.deck)), card)
                ELSE f.deck
    IN [f EXCEPT !.deck = deck,
                 !.correct = IF quality < 3 THEN @ ELSE @ + 1,
                 !.seen = Max(@, f.index + 1)]

\* the session after the in-session handling of a grade, before _nextFlashcard
Regraded(f, card, quality) ==
    LET deck == IF quality < 3
                THEN InsertAt(f.deck, InsertPos(f.index, Len(f.deck)), card)
                ELSE f.deck
    IN [f EXCEPT !.deck = deck,
                 !.total = IF quality < 3 THEN Len(deck) ELSE @,
                 !.correct = IF quality < 3 THEN @ ELSE @ + 1,
                 !.seen = Max(@, f.index + 1)]

gradeFlashcard(quality, shift) ==
    /\ flash.active
    /\ lastOp' = "gradeFlashcard"
    /\ LET card == At(flash.deck, flash.index)
           slot == contentSlots["flashcards"]
           st == GradedState(CardStateOf(slot.srs, card.id), quality, shift)
       IN /\ contentSlots' = [contentSlots EXCEPT
                                 !["flashcards"].srs = PutCardState(slot.srs, card.id, st)]
          /\ flash' = Advanced(Regraded(flash, card, quality))
          /\ studyLog' = Logged([studyLog EXCEPT
                                    !.quality = quality,
                                    !.again = IF quality < 3 THEN @ \cup {card} ELSE @,
                                    !.pending = IF quality < 3 THEN @ \cup {card} ELSE @],
                                flash')
    /\ saveData(contentSlots')
    /\ grades' = grades + 1
    /\ UNCHANGED <<currentView, currentContent, quizVars, parserVars, queueVars, dataVars, now, today,
                   finishedBest>>

\* one of the grade buttons `qualities`, while fewer than `cap` grades have
\* been given
GradeUpTo(cap, qualities, shifts) ==
    \E quality \in qualities, shift \in shifts :
        /\ grades < cap
        /\ gradeFlashcard(quality, shift)

\* midnight UTC passes
DayAdvance ==
    /\ today < MaxDay
    /\ today' = today + 1
    /\ lastOp' = "day"
    /\ NoSave
    /\ UNCHANGED <<contentSlots, currentView, currentContent, quizVars, parserVars, queueVars, dataVars,
                   now, flash, grades, studyLog, finishedBest>>

(***************************************************************************)
(* Inputs of the quiz runs                                                 *)
(***************************************************************************)
\* four string options, the option at `correct` flagged
FourOptions(correct) ==
    [i \in 1 .. 4 |-> JsonOption(i, i - 1 = correct)]

\* three options only
ThreeOptions ==
    [i \in 1 .. 3 |-> JsonOption(i, i = 1)]

\* four options whose first `text` is an object {text: ...}
ObjectOptions(correct) ==
    [i \in 1 .. 4 |-> JsonOption(IF i = 1 THEN TextObject(i) ELSE i, i - 1 = correct)]

QuizTwo ==
    JsonResponse(QuizDoc("quiz_mcq_v1",
        <<JsonItem(1, FourOptions(1)), JsonItem(2, ThreeOptions), JsonItem(3, FourOptions(0))>>))

QuizObject ==
    JsonResponse(QuizDoc("quiz_mcq_v1", <<JsonItem(1, ObjectOptions(1))>>))

QuizResponses == {BlankResponse, PlainTextResponse, QuizTwo, QuizObject}

(***************************************************************************)
(* Specification of the quiz runs: one topic, the quiz slot in use         *)
(***************************************************************************)
NoResult == ErrorResult("not-run")

\* the application after construction, one topic open, with the given view of
\* the intervals
Constructed(timer) ==
    /\ contentSlots = createEmptyContentSlots
    /\ persisted = createEmptyContentSlots
    /\ saveCalled = FALSE
    /\ currentView = "topic-detail"
    /\ currentContent = "none"
    /\ currentQuiz = NoQuiz
    /\ quizControls = FALSE
    /\ quizResults = FALSE
    /\ quizTimer = timer
    /\ lastOp = "init"
    /\ finishedBest = Null
    /\ pResponse = BlankResponse
    /\ pType = "quiz"
    /\ pResult = NoResult
    /\ now = 0
    /\ today = 0
    /\ flash = NoFlash
    /\ grades = 0
    /\ studyLog = NoLog
    /\ topics = OneTopic
    /\ currentTopic = 1
    /\ studyQueue = NoQueue
    /\ structureAnalyzed = (Len(topics) > 0)
    /\ settings = StartupSettings
    /\ prefControls = StartupControls
    /\ stored = Document(topics, structureAnalyzed, settings)

Init == Constructed(Unwatched)

Next ==
    \/ OpenContent("quiz")
    \/ GoBack
    \/ markContentCompleted("quiz")
    \/ unmarkContentCompleted("quiz")
    \/ \E response \in QuizResponses : saveContent(response)
    \/ deleteContent
    \/ loadQuizView
    \/ SubmitUpTo(MaxFinishes)
    \/ nextQuizQuestion
    \/ prevQuizQuestion
    \/ retakeQuiz
    \/ reviewQuizAnswers

Spec == Init /\ [][Next]_vars

(***************************************************************************)
(* Attempt runs: the same handlers over one well-formed quiz, with room    *)
(* for MaxAttempts finished attempts in the slot                           *)
(***************************************************************************)
AttemptResponses == {BlankResponse, QuizTwo}

AttemptNext ==
    \/ OpenContent("quiz")
    \/ GoBack
    \/ markContentCompleted("quiz")
    \/ unmarkContentCompleted("quiz")
    \/ \E response \in AttemptResponses : saveContent(response)
    \/ deleteContent
    \/ loadQuizView
    \/ SubmitUpTo(MaxAttempts)
    \/ nextQuizQuestion
    \/ prevQuizQuestion
    \/ retakeQuiz
    \/ reviewQuizAnswers

AttemptSpec == Init /\ [][AttemptNext]_vars

(***************************************************************************)
(* Timed runs: the quiz session handlers while the wall clock advances     *)
(***************************************************************************)
\* a second passes between two handlers
ClockAdvance ==
    /\ now < MaxClock
    /\ now' = now + 1
    /\ lastOp' = "clock"
    /\ NoSave
    /\ UNCHANGED <<contentSlots, currentView, currentContent, quizVars,
                   parserVars, queueVars, dataVars, studyVars, finishedBest>>

ClockNext ==
    \/ OpenContent("quiz")
    \/ \E response \in AttemptResponses : saveContent(response)
    \/ loadQuizView
    \/ SubmitUpTo(MaxFinishes)
    \/ nextQuizQuestion
    \/ retakeQuiz
    \/ ClockAdvance

ClockSpec == Init /\ [][ClockNext]_vars

(***************************************************************************)
(* Study runs: the flashcards slot of one topic, saved, studied over       *)
(* MaxDay days, deleted                                                    *)
(***************************************************************************)
\* a flashcards_v1 document of n cards with explicit ids 1..n
CardsOf(n) ==
    JsonResponse(CardsDoc("flashcards_v1", [i \in 1 .. n |-> JsonCard(i, 10 + i)]))

CardsThree == CardsOf(3)

StudyResponses == {BlankResponse, CardsThree}

\* the study runs grade Again or Good, on days without a daylight-saving
\* change: a Good card comes due tomorrow
StudyQualities == {1, 4}
StudyShifts == {0}

StudyNext ==
    \/ ~flash.active /\ OpenContent("flashcards")
    \/ ~flash.active /\ GoBack
    \/ ~flash.active /\ \E response \in StudyResponses : saveContent(response)
    \/ ~flash.active /\ deleteContent
    \/ openFlashcardsStudy
    \/ closeFlashcardsStudy
    \/ nextFlashcard
    \/ prevFlashcard
    \/ GradeUpTo(MaxStudyGrades, StudyQualities, StudyShifts)
    \/ DayAdvance

StudySpec == Init /\ [][StudyNext]_vars

(***************************************************************************)
(* Grading runs: one card, graded again and again on one day               *)
(***************************************************************************)
\* the slot map after saveContent(response) into the flashcards slot of a
\* fresh topic
SavedCardSlots(response) ==
    [createEmptyContentSlots EXCEPT !["flashcards"] =
        NewSlot(createEmptyContentSlots["flashcards"],
                parseContentResponse(response, "flashcards"), response, "flashcards")]

\* the card state after k Hard grades of a new card, all given on day 0
RECURSIVE HardStreak(_)
HardStreak(k) ==
    IF k = 0
    THEN [ease |-> InitialEase, reps |-> 0, interval |-> 0, due |-> 0, lastGrade |-> Null]
    ELSE LET st == HardStreak(k - 1)
         IN [ease |-> NextEase(st, 3),
             reps |-> st.reps + 1,
             interval |-> NextInterval(st, 3),
             due |-> NextInterval(st, 3),
             lastGrade |-> 3]

\* the card is new, or it has StreakLen Hard grades behind it, which bring
\* its ease next to the floor
GradeInit ==
    /\ \E srs \in {<<>>, PutCardState(<<>>, 1, HardStreak(StreakLen))} :
          contentSlots = [SavedCardSlots(CardsOf(1)) EXCEPT !["flashcards"].srs = srs]
    /\ persisted = contentSlots
    /\ saveCalled = FALSE
    /\ currentView = "content"
    /\ currentContent = "flashcards"
    /\ currentQuiz = NoQuiz
    /\ quizControls = FALSE
    /\ quizResults = FALSE
    /\ quizTimer = Unwatched
    /\ lastOp = "init"
    /\ finishedBest = Null
    /\ pResponse = BlankResponse
    /\ pType = "quiz"
    /\ pResult = NoResult
    /\ now = 0
    /\ today = 0
    /\ flash = NoFlash
    /\ grades = 0
    /\ studyLog = NoLog
    /\ topics = OneTopic
    /\ currentTopic = 1
    /\ studyQueue = NoQueue
    /\ structureAnalyzed = (Len(topics) > 0)
    /\ settings = StartupSettings
    /\ prefControls = StartupControls
    /\ stored = Document(topics, structureAnalyzed, settings)

GradeNext ==
    \/ openFlashcardsStudy
    \/ flipFlashcard
    \/ GradeUpTo(MaxGrades, Qualities, DstShifts)

GradeSpec == GradeInit /\ [][GradeNext]_vars

(***************************************************************************)
(* Study queue: loadStudyView over every topic of every course             *)
(***************************************************************************)
\* Object.entries(topic.contentSlots): the keys in the order
\* createEmptyContentSlots inserts them
SlotOrder == <<"summary", "flashcards", "quiz", "explainer", "practice", "review">>

\* the place of capitalize(type), and of 'Flashcards Review', in the
\* alphabetical order localeCompare gives the text after the topic name
TypeRank(type) ==
    CASE type = "explainer" -> 1
      [] type = "flashcards" -> 2
      [] type = "practice" -> 4
      [] type = "quiz" -> 5
      [] type = "review" -> 6
      [] type = "summary" -> 7
ReviewRank == 3

\* the topics with the maps of the open topic filled in
AllTopics ==
    [k \in 1 .. Len(topics) |->
        IF k = currentTopic
        THEN [topics[k] EXCEPT !.contentSlots = contentSlots, !.persisted = persisted]
        ELSE topics[k]]

\* the label `${topic.name} * ${text}` as the pair localeCompare orders:
\* topic names are numbers standing for names none of which starts another
ContentItem(k, topic, type) ==
    [kind |-> "content", priority |-> 2, label |-> <<topic.name, TypeRank(type)>>,
     topic |-> k, type |-> type]

ReviewItem(k, topic) ==
    [kind |-> "review", priority |-> 1, label |-> <<topic.name, ReviewRank>>,
     topic |-> k, type |-> "flashcards"]

\* the inner loop: one item per slot with status 'empty', from key i on
RECURSIVE SlotItems(_, _, _)
SlotItems(k, topic, i) ==
    IF i > Len(SlotOrder) THEN <<>>
    ELSE (IF topic.contentSlots[SlotOrder[i]].status = "empty"
          THEN <<ContentItem(k, topic, SlotOrder[i])>> ELSE <<>>)
         \o SlotItems(k, topic, i + 1)

\* variant: a review item for every filled flashcards slot, completed or not
TopicItems_Completed(k, topic) ==
    SlotItems(k, topic, 1)
    \o (IF topic.contentSlots["flashcards"].status = "filled"
        THEN <<ReviewItem(k, topic)>> ELSE <<>>)

\* the body of the topic loop
TopicItems(k, topic) ==
    SlotItems(k, topic, 1)
    \o (IF /\ topic.contentSlots["flashcards"].status = "filled"
           /\ ~topic.contentSlots["flashcards"].completed
        THEN <<ReviewItem(k, topic)>> ELSE <<>>)

\* the items pushed for the topics from position k on
RECURSIVE CandidateItems(_, _)
CandidateItems(all, k) ==
    IF k > Len(all) THEN <<>>
    ELSE TopicItems(k, all[k]) \o CandidateItems(all, k + 1)

LabelBefore(l, m) == l[1] < m[1] \/ (l[1] = m[1] /\ l[2] < m[2])

\* the comparator a.priority - b.priority || a.label.localeCompare(b.label)
\* is negative
ItemBefore(a, b) ==
    \/ a.priority < b.priority
    \/ a.priority = b.priority /\ LabelBefore(a.label, b.label)

\* Array.prototype.sort is stable: an item goes behind the items that do
\* not come after it
RECURSIVE InsertSorted(_, _)
InsertSorted(sorted, it) ==
    IF sorted = <<>> THEN <<it>>
    ELSE IF ItemBefore(it, Head(sorted)) THEN <<it>> \o sorted
    ELSE <<Head(sorted)>> \o InsertSorted(Tail(sorted), it)

RECURSIVE SortItems(_)
SortItems(items) ==
    IF items = <<>> THEN <<>>
    ELSE InsertSorted(SortItems(SubSeq(items, 1, Len(items) - 1)), items[Len(items)])

\* items.slice(0, 8)
QueueLimit == 8

\* variant: the slice is taken before the sort
BuiltQueue_SliceFirst(all) ==
    LET items == CandidateItems(all, 1)
    IN IF Len(items) = 0
       THEN [nothing |-> TRUE, items |-> <<>>, shown |-> <<>>]
       ELSE [nothing |-> FALSE, items |-> SortItems(items),
             shown |-> SortItems(SubSeq(items, 1, Min(QueueLimit, Len(items))))]

\* what loadStudyView renders for the topics `all`
BuiltQueue(all) ==
    LET items == CandidateItems(all, 1)
    IN IF Len(items) = 0
       THEN \* 'No items in your queue yet.'
            [nothing |-> TRUE, items |-> <<>>, shown |-> <<>>]
       ELSE LET sorted == SortItems(items)
            IN [nothing |-> FALSE, items |-> sorted,
                shown |-> SubSeq(sorted, 1, Min(QueueLimit, Len(sorted)))]

\* the Study button of the navigation bar: showView('study') -> loadStudyView
loadStudyView ==
    /\ ~flash.active
    /\ currentView \in {"dashboard", "study", "topic-detail", "content"}
    /\ currentView' = "study"
    /\ studyQueue' = BuiltQueue(AllTopics)
    /\ lastOp' = "loadStudyView"
    /\ NoSave
    /\ UNCHANGED <<contentSlots, currentContent, quizVars, parserVars, now,
                   studyVars, topics, currentTopic, dataVars, finishedBest>>

\* the Go button of the displayed item idx: items[idx].go() ->
\* showView('content', { type, topicId }) -> loadContentView
studyGo(idx) ==
    /\ currentView = "study"
    /\ idx \in 1 .. Len(studyQueue.shown)
    /\ LET it == studyQueue.shown[idx]
           k == it.topic
       IN /\ currentTopic' = k
          /\ topics' = [AllTopics EXCEPT ![k] = OpenTopicEntry(topics[k].name)]
          /\ contentSlots' = AllTopics[k].contentSlots
          /\ persisted' = AllTopics[k].persisted
          /\ currentContent' = it.type
    /\ saveCalled' = FALSE
    /\ stored' = stored
    /\ currentView' = "content"
    /\ lastOp' = "studyGo"
    /\ UNCHANGED <<quizVars, parserVars, now, studyVars, studyQueue, dataVars,
                   finishedBest>>

\* a Go button among those that lead to a slot of `types`
GoUpTo(types) ==
    \E idx \in 1 .. QueueLimit :
        /\ idx <= Len(studyQueue.shown)
        /\ studyQueue.shown[idx].type \in types
        /\ studyGo(idx)

\* the slots the queue runs fill, and the response they are filled from
QueueTypes == {"flashcards", "summary"}
QueueResponses == {CardsOf(1)}
\* the later topic has the earlier name
TopicName(k, n) == n + 1 - k

\* no course yet, or one course of up to MaxTopics new topics, the first open
QueueInit ==
    /\ \E n \in 0 .. MaxTopics :
         /\ topics = [k \in 1 .. n |-> OpenTopicEntry(TopicName(k, n))]
         /\ currentTopic = IF n = 0 THEN 0 ELSE 1
         /\ currentView = IF n = 0 THEN "dashboard" ELSE "topic-detail"
    /\ contentSlots = createEmptyContentSlots
    /\ persisted = createEmptyContentSlots
    /\ saveCalled = FALSE
    /\ currentContent = "none"
    /\ currentQuiz = NoQuiz
    /\ quizControls = FALSE
    /\ quizResults = FALSE
    /\ quizTimer = Unwatched
    /\ lastOp = "init"
    /\ finishedBest = Null
    /\ pResponse = BlankResponse
    /\ pType = "quiz"
    /\ pResult = NoResult
    /\ now = 0
    /\ today = 0
    /\ flash = NoFlash
    /\ grades = 0
    /\ studyLog = NoLog
    /\ studyQueue = NoQueue
    /\ structureAnalyzed = (Len(topics) > 0)
    /\ settings = StartupSettings
    /\ prefControls = StartupControls
    /\ stored = Document(topics, structureAnalyzed, settings)

QueueNext ==
    \/ \E type \in QueueTypes : OpenContent(type)
    \/ GoBack
    \/ \E response \in QueueResponses : saveContent(response)
    \/ deleteContent
    \/ markContentCompleted("flashcards")
    \/ loadStudyView
    \/ GoUpTo(QueueTypes)

QueueSpec == QueueInit /\ [][QueueNext]_vars

(***************************************************************************)
(* Structure parser: parseStructureText over the lines of a response       *)
(***************************************************************************)
\* A line of the response, as the parser's tests see it:
\*   marker      "topic" (the line includes 'TOPIC_START:'), "subtopic" (it
\*               includes 'SUBTOPIC:'), "heading" (it matches /^#{2,3}\s+/)
\*               or "text" (none of these)
\*   name        what follows the marker up to ' ##' or the end of the line,
\*               0 when nothing follows
\*   annotated   the line carries '## DIFFICULTY: d ## CATEGORY: c'
Line(marker, name, annotated) ==
    [marker |-> marker, name |-> name, annotated |-> annotated]

NoName == 0
LineNames == {1, 2}

StructureLines ==
    { Line("topic", name, a) : name \in {NoName} \cup LineNames, a \in BOOLEAN }
    \cup { Line("subtopic", name, FALSE) : name \in {NoName} \cup LineNames }
    \cup { Line("heading", name, FALSE) : name \in {NoName} \cup LineNames }
    \cup { Line("text", NoName, FALSE) }

\* line.match(/TOPIC_START:\s*(.+?)(?:\s*##|$)/): `.+?` needs one character
TopicMatch(line) == line.marker = "topic" /\ line.name # NoName

\* line.match(/SUBTOPIC:\s*(.+?)(?:\s*##|$)/)
SubtopicMatch(line) == line.marker = "subtopic" /\ line.name # NoName

\* this.extractValue(line, 'DIFFICULTY') || 'Medium'
DifficultyOf(line) == IF line.annotated THEN "annotated" ELSE "Medium"

\* this.extractValue(line, 'CATEGORY') || 'General'
CategoryOf(line) == IF line.annotated THEN "annotated" ELSE "General"

NewTopic(name, difficulty, category) ==
    [name |-> name, difficulty |-> difficulty, category |-> category,
     subtopics |-> <<>>, contentSlots |-> createEmptyContentSlots]

\* one turn of the marker loop: `topics` so far, the open topic being the
\* last one pushed
ScanLine(parsed, line) ==
    IF TopicMatch(line)
    THEN Append(parsed, NewTopic(line.name, DifficultyOf(line), CategoryOf(line)))
    ELSE IF SubtopicMatch(line) /\ parsed # <<>>
    THEN [parsed EXCEPT ![Len(parsed)].subtopics = Append(@, line.name)]
    ELSE parsed

RECURSIVE ScanLines(_, _)
ScanLines(parsed, lines) ==
    IF lines = <<>> THEN parsed
    ELSE ScanLines(ScanLine(parsed, Head(lines)), Tail(lines))

\* the fallback loop: a heading opens a topic unless its name is empty or
\* taken
RECURSIVE ScanHeadings(_, _)
ScanHeadings(parsed, lines) ==
    IF lines = <<>> THEN parsed
    ELSE LET line == Head(lines)
             fresh == /\ line.marker = "heading"
                      /\ line.name # NoName
                      /\ \A i \in 1 .. Len(parsed) : parsed[i].name # line.name
         IN ScanHeadings(IF fresh
                         THEN Append(parsed, NewTopic(line.name, "Medium", "General"))
                         ELSE parsed,
                         Tail(lines))

parseStructureText(lines) ==
    LET marked == ScanLines(<<>>, lines)
    IN IF Len(marked) = 0 THEN ScanHeadings(<<>>, lines) ELSE marked

\* every response of up to MaxLines lines
RECURSIVE LinesUpTo(_)
LinesUpTo(n) ==
    IF n = 0 THEN {<<>>}
    ELSE LET shorter == LinesUpTo(n - 1)
         IN shorter \cup { Append(t, l) : t \in { u \in shorter : Len(u) = n - 1 },
                                          l \in StructureLines }

StructureInit ==
    /\ contentSlots = createEmptyContentSlots
    /\ persisted = createEmptyContentSlots
    /\ saveCalled = FALSE
    /\ currentView = "course-detail"
    /\ currentContent = "none"
    /\ currentQuiz = NoQuiz
    /\ quizControls = FALSE
    /\ quizResults = FALSE
    /\ quizTimer = Unwatched
    /\ lastOp = "init"
    /\ finishedBest = Null
    /\ pResponse \in LinesUpTo(MaxLines)
    /\ pType = "structure"
    /\ pResult = NoResult
    /\ now = 0
    /\ today = 0
    /\ flash = NoFlash
    /\ grades = 0
    /\ studyLog = NoLog
    /\ topics = OneTopic
    /\ currentTopic = 1
    /\ studyQueue = NoQueue
    /\ structureAnalyzed = (Len(topics) > 0)
    /\ settings = StartupSettings
    /\ prefControls = StartupControls
    /\ stored = Document(topics, structureAnalyzed, settings)

StructureStep ==
    /\ lastOp = "init"
    /\ pResult' = parseStructureText(pResponse)
    /\ lastOp' = "parseStructureText"
    /\ UNCHANGED <<contentSlots, persisted, saveCalled, stored, currentView, currentContent,
                   quizVars, finishedBest, pResponse, pType, now, studyVars, queueVars, dataVars>>

StructureNext == StructureStep

StructureSpec == StructureInit /\ [][StructureNext]_vars

(***************************************************************************)
(* Course runs: parseStructureResponse in the course-detail view           *)
(***************************************************************************)
\* the parsed topics as the course holds them, saved with the course
Committed(parsed) ==
    [k \in 1 .. Len(parsed) |->
        [f \in DOMAIN parsed[k] \cup {"persisted"} |->
            IF f = "persisted" THEN parsed[k].contentSlots ELSE parsed[k][f]]]

\* how the latest call of parseStructureResponse ended
Outcome(tag) == [schema_version |-> "none", outcome |-> tag]

\* variant: the course is flagged as analyzed, and saved, before the parse
Rejected_SetsFlag ==
    /\ UNCHANGED <<topics, currentTopic, contentSlots>>
    /\ structureAnalyzed' = TRUE
    /\ persisted' = persisted
    /\ saveCalled' = TRUE
    /\ stored' = Document(topics, TRUE, settings)

\* the early return on a blank response, and the catch clause: a toast
Rejected ==
    /\ UNCHANGED <<topics, currentTopic, contentSlots, structureAnalyzed>>
    /\ NoSave

\* the Parse button of the course-detail view.  `throws` stands for an
\* exception raised inside the try block by parseStructureText or by the
\* lookup of the current course, before the first assignment.  After a
\* commit data.currentTopic is an object the course no longer holds: no
\* topic of the course is open
parseStructureResponse(lines, throws) ==
    /\ currentView = "course-detail"
    /\ lastOp' = "parseStructureResponse"
    /\ pResponse' = lines
    /\ IF lines = <<>>
       THEN \* 'Please paste the AI response'
            /\ pResult' = Outcome("blank")
            /\ Rejected
       ELSE IF throws
       THEN \* 'Failed to parse structure. Please check the format.'
            /\ pResult' = Outcome("throws")
            /\ Rejected
       ELSE /\ pResult' = Outcome("committed")
            /\ topics' = Committed(parseStructureText(lines))
            /\ structureAnalyzed' = TRUE
            /\ currentTopic' = 0
            /\ contentSlots' = createEmptyContentSlots
            /\ persisted' = createEmptyContentSlots
            /\ saveCalled' = TRUE
            /\ stored' = Document(topics', TRUE, settings)
    /\ UNCHANGED <<currentView, currentContent, quizVars, pType, now, studyVars,
                   studyQueue, settings, prefControls, finishedBest>>

\* a topic card of the course-detail view: openTopic -> showView('topic-detail')
\* -> loadTopicDetail
openTopic(k) ==
    /\ currentView = "course-detail"
    /\ k \in 1 .. Len(topics)
    /\ currentTopic' = k
    /\ topics' = [AllTopics EXCEPT ![k].contentSlots = createEmptyContentSlots,
                                    ![k].persisted = createEmptyContentSlots]
    /\ contentSlots' = AllTopics[k].contentSlots
    /\ persisted' = AllTopics[k].persisted
    /\ saveCalled' = FALSE
    /\ stored' = stored
    /\ currentView' = "topic-detail"
    /\ lastOp' = "openTopic"
    /\ UNCHANGED <<currentContent, quizVars, parserVars, now, studyVars, studyQueue,
                   dataVars, finishedBest>>

\* goBack, case 'topic-detail': showView('course-detail')
GoBackToCourse ==
    /\ currentView = "topic-detail"
    /\ currentView' = "course-detail"
    /\ lastOp' = "goBack"
    /\ NoSave
    /\ UNCHANGED <<contentSlots, currentContent, quizVars, nonQuizVars, finishedBest>>

\* a course just created, or one analyzed before
CourseTopics ==
    {<<>>, Committed(parseStructureText(<<Line("topic", 1, FALSE),
                                         Line("subtopic", 1, FALSE)>>))}

CourseInit ==
    /\ topics \in CourseTopics
    /\ currentTopic = 0
    /\ currentView = "course-detail"
    /\ contentSlots = createEmptyContentSlots
    /\ persisted = createEmptyContentSlots
    /\ saveCalled = FALSE
    /\ currentContent = "none"
    /\ currentQuiz = NoQuiz
    /\ quizControls = FALSE
    /\ quizResults = FALSE
    /\ quizTimer = Unwatched
    /\ lastOp = "init"
    /\ finishedBest = Null
    /\ pResponse = <<>>
    /\ pType = "structure"
    /\ pResult = NoResult
    /\ now = 0
    /\ today = 0
    /\ flash = NoFlash
    /\ grades = 0
    /\ studyLog = NoLog
    /\ studyQueue = NoQueue
    /\ structureAnalyzed = (Len(topics) > 0)
    /\ settings = StartupSettings
    /\ prefControls = StartupControls
    /\ stored = Document(topics, structureAnalyzed, settings)

\* the responses submitted in the course runs: none, an outline with
\* markers, outlines with a marker line that names no topic, markdown
\* headings, plain text
CourseResponses ==
    { <<>>,
      <<Line("topic", 1, FALSE), Line("subtopic", 1, FALSE), Line("topic", 2, TRUE)>>,
      <<Line("topic", 2, FALSE)>>,
      <<Line("topic", NoName, FALSE), Line("subtopic", 1, FALSE)>>,
      <<Line("topic", 1, TRUE), Line("topic", NoName, FALSE), Line("subtopic", 2, FALSE)>>,
      <<Line("heading", 1, FALSE), Line("heading", 1, FALSE), Line("heading", 2, FALSE)>>,
      <<Line("text", NoName, FALSE)>> }

CourseNext ==
    \/ \E lines \in CourseResponses, throws \in BOOLEAN :
          parseStructureResponse(lines, throws)
    \/ \E k \in 1 .. MaxTopics : openTopic(k)
    \/ GoBackToCourse

CourseSpec == CourseInit /\ [][CourseNext]_vars

(***************************************************************************)
(* Slot runs: one topic, its flashcards and quiz slots saved, marked,      *)
(* studied, taken and deleted                                              *)
(***************************************************************************)
SlotTypes == {"flashcards", "quiz"}

\* one well-formed question
QuizOne ==
    JsonResponse(QuizDoc("quiz_mcq_v1", <<JsonItem(1, FourOptions(1))>>))

\* two decks, the second without card 2 of the first
SlotResponses == {CardsOf(2), CardsOf(1), QuizOne}

SlotQualities == {4}

\* the response pasted into a slot is the answer to that slot's prompt
Pasted(response, type) ==
    IF type = "quiz" THEN response = QuizOne ELSE response # QuizOne

SlotNext ==
    \/ ~flash.active /\ \E type \in SlotTypes : OpenContent(type)
    \/ ~flash.active /\ GoBack
    \/ markContentCompleted("flashcards")
    \/ unmarkContentCompleted("flashcards")
    \/ ~flash.active /\ \E response \in SlotResponses :
          Pasted(response, currentContent) /\ saveContent(response)
    \/ ~flash.active /\ deleteContent
    \/ loadQuizView
    \/ SubmitUpTo(MaxFinishes)
    \/ openFlashcardsStudy
    \/ closeFlashcardsStudy
    \/ GradeUpTo(MaxStudyGrades, SlotQualities, StudyShifts)

SlotSpec == Init /\ [][SlotNext]_vars

(***************************************************************************)
(* Session runs: the flashcards slot saved, saved again, studied card by   *)
(* card and deleted, on one day                                            *)
(***************************************************************************)
SessionResponses == {CardsOf(2), CardsOf(1)}

SessionNext ==
    \/ ~flash.active /\ OpenContent("flashcards")
    \/ ~flash.active /\ \E response \in SessionResponses : saveContent(response)
    \/ ~flash.active /\ deleteContent
    \/ openFlashcardsStudy
    \/ closeFlashcardsStudy
    \/ flipFlashcard
    \/ nextFlashcard
    \/ prevFlashcard
    \/ GradeUpTo(MaxStudyGrades, StudyQualities, StudyShifts)

SessionSpec == Init /\ [][SessionNext]_vars

(***************************************************************************)
(* Settings: the preference controls, import and clearAllData              *)
(***************************************************************************)
\* the header menu: showView('settings'); the flashcards modal covers the menu
showSettings ==
    /\ ~flash.active
    /\ currentView # "settings"
    /\ currentView' = "settings"
    /\ lastOp' = "showSettings"
    /\ NoSave
    /\ UNCHANGED <<contentSlots, currentContent, quizVars, nonQuizVars, finishedBest>>

\* goBack, default case: showView('dashboard')
GoBackToDashboard ==
    /\ currentView = "settings"
    /\ currentView' = "dashboard"
    /\ lastOp' = "goBack"
    /\ NoSave
    /\ UNCHANGED <<contentSlots, currentContent, quizVars, nonQuizVars, finishedBest>>

\* a course card of the dashboard: openCourse -> showView('course-detail')
openCourse ==
    /\ currentView = "dashboard"
    /\ currentView' = "course-detail"
    /\ lastOp' = "openCourse"
    /\ NoSave
    /\ UNCHANGED <<contentSlots, currentContent, quizVars, nonQuizVars, finishedBest>>

\* Number(e.target.value) of a field left empty or holding text
NotFinite == Null

\* the value a change listener stores: flashcardsCount is clamped to 5..50,
\* 15 standing in for a value that is not a finite number
Entered(field, value) ==
    IF field = "flashcardsCount"
    THEN IF value = NotFinite THEN 15 ELSE Max(5, Min(50, value))
    ELSE value

\* the tree's settings after a listener has written `pp`, the record captured
\* when the controls were set up: the tree sees the write only while its
\* personalization is still that object
Written(pp) ==
    IF prefControls.attached
    THEN [settings EXCEPT !.personalization = pp]
    ELSE settings

\* a change listener of _initPreferenceControls: pp[field] = value; save()
setPreference(field, value) ==
    LET pp == [prefControls.pp EXCEPT ![field] = Entered(field, value)]
    IN /\ currentView = "settings"
       /\ lastOp' = "setPreference"
       /\ pResult' = [field |-> field, value |-> Entered(field, value)]
       /\ prefControls' = [prefControls EXCEPT !.pp = pp]
       /\ settings' = Written(pp)
       /\ persisted' = contentSlots
       /\ saveCalled' = TRUE
       /\ stored' = Document(topics, structureAnalyzed, settings')
       /\ UNCHANGED <<contentSlots, currentView, currentContent, quizVars, pResponse, pType,
                      now, studyVars, queueVars, structureAnalyzed, finishedBest>>

\* the reset button: Object.assign(pp, this._getDefaultPrefs()); saveData
resetPreferences ==
    /\ currentView = "settings"
    /\ lastOp' = "resetPreferences"
    /\ prefControls' = [prefControls EXCEPT !.pp = StartupPersonalization]
    /\ settings' = Written(StartupPersonalization)
    /\ persisted' = contentSlots
    /\ saveCalled' = TRUE
    /\ stored' = Document(topics, structureAnalyzed, settings')
    /\ UNCHANGED <<contentSlots, currentView, currentContent, quizVars, parserVars,
                   now, studyVars, queueVars, structureAnalyzed, finishedBest>>

\* the personalization literal of clearAllData: four fields
ClearedPersonalization ==
    [depth |-> "standard", examples |-> "medium", rigor |-> "light", readTime |-> 10]

\* clearAllData, confirmed: the stored item is removed and this.data becomes
\* a new tree without courses, which is not saved
clearAllData ==
    /\ currentView = "settings"
    /\ lastOp' = "clearAllData"
    /\ topics' = <<>>
    /\ currentTopic' = 0
    /\ structureAnalyzed' = FALSE
    /\ contentSlots' = createEmptyContentSlots
    /\ persisted' = createEmptyContentSlots
    /\ saveCalled' = FALSE
    /\ stored' = NoDocument
    /\ settings' = [personalization |-> ClearedPersonalization]
    /\ prefControls' = [prefControls EXCEPT !.attached = FALSE]
    /\ currentView' = "dashboard"
    /\ currentContent' = "none"
    /\ UNCHANGED <<quizVars, parserVars, now, studyVars, studyQueue, finishedBest>>

\* an export of the program: one course, its topics closed, and settings
ImportFile(ts, pp) ==
    [topics |-> ts, structureAnalyzed |-> Len(ts) > 0,
     settings |-> [personalization |-> pp]]

\* handleImportFile, confirmed, on a JSON file with a `courses` key:
\* this.data = imported; saveData
handleImportFile(file) ==
    /\ currentView = "settings"
    /\ lastOp' = "handleImportFile"
    /\ topics' = file.topics
    /\ currentTopic' = 0
    /\ structureAnalyzed' = file.structureAnalyzed
    /\ contentSlots' = createEmptyContentSlots
    /\ settings' = file.settings
    /\ prefControls' = [prefControls EXCEPT !.attached = FALSE]
    /\ persisted' = contentSlots'
    /\ saveCalled' = TRUE
    /\ stored' = Document(topics', structureAnalyzed', settings')
    /\ currentView' = "dashboard"
    /\ currentContent' = "none"
    /\ UNCHANGED <<quizVars, parserVars, now, studyVars, studyQueue, finishedBest>>

(***************************************************************************)
(* Settings runs: the program started on a stored tree, the settings view  *)
(* opened and left                                                         *)
(***************************************************************************)
\* init(): loadData, migrateDataSchema, showView('dashboard')
SettingsInit ==
    /\ contentSlots = createEmptyContentSlots
    /\ persisted = createEmptyContentSlots
    /\ saveCalled = FALSE
    /\ currentView = "dashboard"
    /\ currentContent = "none"
    /\ currentQuiz = NoQuiz
    /\ quizControls = FALSE
    /\ quizResults = FALSE
    /\ quizTimer = Unwatched
    /\ lastOp = "init"
    /\ finishedBest = Null
    /\ pResponse = BlankResponse
    /\ pType = "quiz"
    /\ pResult = NoResult
    /\ now = 0
    /\ today = 0
    /\ flash = NoFlash
    /\ grades = 0
    /\ studyLog = NoLog
    /\ topics = OneTopic
    /\ currentTopic = 1
    /\ studyQueue = NoQueue
    /\ structureAnalyzed = (Len(topics) > 0)
    /\ settings = StartupSettings
    /\ prefControls = StartupControls
    /\ stored = Document(topics, structureAnalyzed, settings)

\* the depth select and the flashcards count field, the count below, within
\* and above 5..50 and not a number
SettingsEdits ==
    { [field |-> "depth", value |-> v] : v \in {"standard", "deep"} }
    \cup { [field |-> "flashcardsCount", value |-> v] : v \in {3, 20, 100, NotFinite} }

ImportFiles ==
    { ImportFile(ts, pp) :
        ts \in {<<>>, OneTopic},
        pp \in {StartupPersonalization, [StartupPersonalization EXCEPT !.depth = "deep"]} }

SettingsNext ==
    \/ showSettings
    \/ GoBackToDashboard
    \/ \E e \in SettingsEdits : setPreference(e.field, e.value)
    \/ resetPreferences
    \/ clearAllData
    \/ \E file \in ImportFiles : handleImportFile(file)

SettingsSpec == SettingsInit /\ [][SettingsNext]_vars

(***************************************************************************)
(* Persistence runs: content saved, a quiz finished, cards graded and a    *)
(* preference changed in one topic                                         *)
(***************************************************************************)
PersistResponses == {CardsOf(1), QuizOne}

PersistEdits == { [field |-> "depth", value |-> v] : v \in {"standard", "deep"} }

PersistNext ==
    \/ ~flash.active /\ \E type \in SlotTypes : OpenContent(type)
    \/ ~flash.active /\ GoBack
    \/ ~flash.active /\ \E response \in PersistResponses :
          Pasted(response, currentContent) /\ saveContent(response)
    \/ loadQuizView
    \/ SubmitUpTo(MaxFinishes)
    \/ openFlashcardsStudy
    \/ GradeUpTo(MaxStudyGrades, SlotQualities, StudyShifts)
    \/ showSettings
    \/ \E e \in PersistEdits : setPreference(e.field, e.value)
    \/ GoBackToDashboard
    \/ openCourse
    \/ \E k \in 1 .. MaxTopics : openTopic(k)

PersistSpec == Init /\ [][PersistNext]_vars

(***************************************************************************)
(* Pure-parser runs: parseContentResponse applied to one drawn response    *)
(***************************************************************************)
\* the options of an item: n options, those at the positions `correct` flagged;
\* with `object`, the first text is an object {text: ...}
OptionsOf(n, correct, object) ==
    [i \in 1 .. n |-> JsonOption(IF object /\ i = 1 THEN TextObject(i) ELSE i,
                                 i \in correct)]

OptionLists ==
    { OptionsOf(n, correct, FALSE) :
        n \in 0 .. MaxOptions,
        correct \in { c \in SUBSET (1 .. MaxOptions) : Cardinality(c) <= MaxCorrect } }
    \cup { OptionsOf(OptionsPerQuestion, {k}, TRUE) : k \in 1 .. 2 }

\* items carry their position as stem, so that a parsed question names its item
ItemLists ==
    UNION { [1 .. n -> OptionLists] : n \in 0 .. MaxItems }

ItemsOf(optionLists) ==
    [i \in 1 .. Len(optionLists) |-> JsonItem(i, optionLists[i])]

QuizDocs ==
    { QuizDoc(sv, ItemsOf(ol)) : sv \in {"quiz_mcq_v1", "none"}, ol \in ItemLists }
    \cup { JsonDoc(TRUE, "quiz_mcq_v1", "absent", <<>>, "absent", <<>>) }

CardDocs ==
    { CardsDoc(sv, cards) : sv \in {"flashcards_v1", "none"},
                            cards \in { <<>>, <<JsonCard(Null, 1)>>,
                                        <<JsonCard(7, 1), JsonCard(Null, 2)>>,
                                        <<JsonCard(7, 1), JsonCard(7, 2)>>,
                                        <<JsonCard(DefaultId(2), 1), JsonCard(Null, 2)>> } }

OtherDocs == {JsonNull, JsonPlainObject}

ParserResponses ==
    { JsonResponse(doc) : doc \in QuizDocs \cup CardDocs \cup OtherDocs }
    \cup { FencedResponse(doc, h) : doc \in CardDocs \cup OtherDocs, h \in BOOLEAN }
    \cup { MarkdownResponse, PlainTextResponse }

ParseInit ==
    /\ contentSlots = createEmptyContentSlots
    /\ persisted = createEmptyContentSlots
    /\ saveCalled = FALSE
    /\ currentView = "topic-detail"
    /\ currentContent = "none"
    /\ currentQuiz = NoQuiz
    /\ quizControls = FALSE
    /\ quizResults = FALSE
    /\ quizTimer = Unwatched
    /\ lastOp = "init"
    /\ finishedBest = Null
    /\ pResponse \in ParserResponses
    /\ pType \in ContentTypes
    /\ pResult = NoResult
    /\ now = 0
    /\ today = 0
    /\ flash = NoFlash
    /\ grades = 0
    /\ studyLog = NoLog
    /\ topics = OneTopic
    /\ currentTopic = 1
    /\ studyQueue = NoQueue
    /\ structureAnalyzed = (Len(topics) > 0)
    /\ settings = StartupSettings
    /\ prefControls = StartupControls
    /\ stored = Document(topics, structureAnalyzed, settings)

ParseStep ==
    /\ lastOp = "init"
    /\ pResult' = parseContentResponse(pResponse, pType)
    /\ lastOp' = "parseContentResponse"
    /\ UNCHANGED <<contentSlots, persisted, saveCalled, stored, currentView, currentContent,
                   quizVars, finishedBest, pResponse, pType, now, studyVars, queueVars, dataVars>>

ParseNext == ParseStep

ParseSpec == ParseInit /\ [][ParseNext]_vars

(***************************************************************************)
(* Scoring runs: a session over 1..MaxQuestions stored questions, anywhere  *)
(* before its finish                                                       *)
(***************************************************************************)
MaxQuestions == 3

QuizOf(corrects) ==
    JsonResponse(QuizDoc("quiz_mcq_v1",
        [i \in 1 .. Len(corrects) |-> JsonItem(i, FourOptions(corrects[i]))]))

ScoreResponses ==
    { QuizOf(corrects) :
        corrects \in UNION { [1 .. n -> 0 .. MaxChoice] : n \in 1 .. MaxQuestions } }

\* the slot map after saveContent(response) on a fresh topic
SavedQuizSlots(response) ==
    [createEmptyContentSlots EXCEPT !["quiz"] =
        NewSlot(createEmptyContentSlots["quiz"], parseContentResponse(response, "quiz"),
                response, "quiz")]

ScoreInit ==
    \E response \in ScoreResponses :
        LET slots == SavedQuizSlots(response)
            questions == SessionQuestions(StoredQuestions(slots["quiz"].content))
        IN /\ contentSlots = slots
           /\ persisted = slots
           /\ saveCalled = FALSE
           /\ currentView = "quiz"
           /\ currentContent = "quiz"
           /\ \E answers \in [1 .. Len(questions) -> Selections],
                 cur \in 0 .. Len(questions) - 1 :
                   /\ answers[Len(questions)] = NoSelection
                   /\ currentQuiz = [NewQuiz(questions, 0) EXCEPT !.answers = answers,
                                                               !.currentQuestion = cur]
           /\ quizControls = TRUE
           /\ quizResults = FALSE
           /\ quizTimer = Unwatched
           /\ lastOp = "init"
           /\ finishedBest = Null
           /\ pResponse = BlankResponse
           /\ pType = "quiz"
           /\ pResult = NoResult
           /\ now = 0
           /\ today = 0
           /\ flash = NoFlash
           /\ grades = 0
           /\ studyLog = NoLog
           /\ topics = OneTopic
           /\ currentTopic = 1
           /\ studyQueue = NoQueue
           /\ structureAnalyzed = (Len(topics) > 0)
           /\ settings = StartupSettings
           /\ prefControls = StartupControls
           /\ stored = Document(topics, structureAnalyzed, settings)

ScoreNext ==
    \/ SubmitUpTo(MaxAttempts)
    \/ nextQuizQuestion
    \/ prevQuizQuestion

ScoreSpec == ScoreInit /\ [][ScoreNext]_vars

(***************************************************************************)
(* Properties                                                              *)
(***************************************************************************)
QuizSlot == contentSlots["quiz"]
AttemptsOf(slot) == IF slot.hasAttempts THEN slot.attempts ELSE <<>>
BestOf(slot) == IF slot.hasBestScore THEN slot.bestScore ELSE 0

\* C1: when parseContentResponse returns an error result for the submitted
\* response, saveContent leaves the target slot unchanged and persists
\* nothing.  Stated on a step: a saveContent that changed the slot or reached
\* saveData did so with a response the parser accepts.
C1_RejectedSaveChangesNothing ==
    [][ (lastOp' = "saveContent"
         /\ (contentSlots'[currentContent] # contentSlots[currentContent] \/ saveCalled'))
        => ~IsError(parseContentResponse(contentSlots'[currentContent].rawResponse,
                                         currentContent)) ]_vars

\* the items of a quiz document and the test the claim puts on one item
IsQuizJson(response) ==
    LET maybeJson == extractJsonFromText(response)
    IN maybeJson.truthy
       /\ (maybeJson.schema_version = "quiz_mcq_v1" \/ maybeJson.itemsKind = "array")

FlaggedCorrect(item) ==
    { i \in 1 .. Len(item.options) : item.options[i].isCorrect = TRUE }

ExactlyOneCorrectOfFour(item) ==
    Len(item.options) = 4 /\ Cardinality(FlaggedCorrect(item)) = 1

\* ids of the questions of a parse result: the 1-based positions of their items
SurvivingItems(result) ==
    IF IsError(result) THEN {}
    ELSE { result.questions[k].id : k \in 1 .. Len(result.questions) }

\* C2: for every quiz JSON input an item survives the filtering of
\* parseContentResponse iff it has exactly 4 options and exactly one option
\* with isCorrect == true; the number of survivors equals questions.length
\* and totalQuestions.
C2_SurvivesIffExactlyOneCorrect ==
    (lastOp = "parseContentResponse" /\ pType = "quiz" /\ IsQuizJson(pResponse))
    => LET items == extractJsonFromText(pResponse).items
       IN /\ \A i \in 1 .. Len(items) :
                (i \in SurvivingItems(pResult)) <=> ExactlyOneCorrectOfFour(items[i])
          /\ ~IsError(pResult) =>
                /\ Len(pResult.questions) = Cardinality(SurvivingItems(pResult))
                /\ pResult.totalQuestions = Len(pResult.questions)

UsableQuestion(q) ==
    Len(q.options) = 4 /\ q.correctAnswer \in 0 .. 3

\* C3: every question of a quiz payload stored by saveContent and every
\* question of a quiz session built by loadQuizView has exactly 4 options and
\* a correctAnswer index in 0..3.
C3_QuestionsUsable ==
    /\ \A k \in 1 .. Len(StoredQuestions(QuizSlot.content)) :
          UsableQuestion(StoredQuestions(QuizSlot.content)[k])
    /\ currentQuiz.exists =>
          \A k \in 1 .. Len(currentQuiz.questions) : UsableQuestion(currentQuiz.questions[k])

LastAttempt(slot) == slot.attempts[Len(slot.attempts)]

\* C4: for a given quiz slot bestScore never decreases from one finished
\* attempt to the next, whatever happens between the two attempts (content
\* delete followed by a new save included).
C4_BestNeverDecreasesAcrossAttempts ==
    [][ (lastOp' = "finishQuiz" /\ finishedBest # Null)
        => QuizSlot'.bestScore >= finishedBest ]_vars

\* C4 as amended: no step other than deleteContent lowers bestScore, so it
\* never decreases from one finished attempt to the next unless the content
\* was deleted in between.
C4_BestDecreasesOnlyByDelete ==
    [][ lastOp' # "deleteContent" => BestOf(QuizSlot') >= BestOf(QuizSlot) ]_vars

\* a second, lower-scoring attempt has been finished and the best is kept
C4_Witness ==
    /\ lastOp = "finishQuiz"
    /\ Len(QuizSlot.attempts) = 2
    /\ QuizSlot.attempts[2].percentage < QuizSlot.attempts[1].percentage
    /\ QuizSlot.bestScore = QuizSlot.attempts[1].percentage

\* C5: once a finished attempt leaves bestScore at or above 70, completed is
\* true and stays true in every later state.
C5_MasteredStaysCompleted ==
    (finishedBest # Null /\ finishedBest >= quizMasteryThreshold
     /\ QuizSlot.hasBestScore /\ QuizSlot.bestScore >= quizMasteryThreshold)
    => QuizSlot.completed

\* C5 as amended: a finished attempt that leaves bestScore at or above 70
\* leaves completed true, and completed goes from true to false only by
\* unmarkContentCompleted or deleteContent, never by a later attempt.
C5_CompletedResetOnlyByUndoOrDelete ==
    [][ /\ (lastOp' = "finishQuiz" /\ QuizSlot'.bestScore >= quizMasteryThreshold)
           => QuizSlot'.completed
        /\ (QuizSlot.completed /\ ~QuizSlot'.completed)
           => lastOp' \in {"unmarkContentCompleted", "deleteContent"} ]_vars

\* a mastered slot after a later attempt below the threshold
C5_Witness ==
    /\ lastOp = "finishQuiz"
    /\ Len(QuizSlot.attempts) = 2
    /\ QuizSlot.attempts[1].percentage >= quizMasteryThreshold
    /\ QuizSlot.attempts[2].percentage < quizMasteryThreshold
    /\ QuizSlot.completed

CorrectlyAnswered(quiz) ==
    { i \in 1 .. Len(quiz.questions) :
        quiz.answers[i] # Null /\ quiz.answers[i] = quiz.questions[i].correctAnswer }

C7_FinishUpdatesBestAndCompleted ==
    [][ lastOp' = "finishQuiz"
        => LET before == BestOf(QuizSlot)
               pct == LastAttempt(QuizSlot').percentage
               after == QuizSlot'.bestScore
           IN /\ after >= before /\ after >= pct /\ after \in {before, pct}
              /\ (after >= quizMasteryThreshold) => QuizSlot'.completed
              /\ QuizSlot.completed => QuizSlot'.completed ]_vars

\* a finish whose own percentage is below 70 on a slot whose historical best
\* is at or above 70: the slot is completed and stamped by this finish
C7_Witness ==
    /\ lastOp = "finishQuiz"
    /\ LastAttempt(QuizSlot).percentage < quizMasteryThreshold
    /\ QuizSlot.bestScore >= quizMasteryThreshold
    /\ QuizSlot.completed
    /\ QuizSlot.lastUpdated = NowStamp
    /\ Len(QuizSlot.attempts) >= 2

\* C8: apart from deleting the content, the attempts sequence of the quiz
\* slot changes only by finishQuiz appending exactly one Attempt at its end.
C8_AttemptsAppendOnly ==
    [][ lastOp' # "deleteContent"
        => IF lastOp' = "finishQuiz"
           THEN /\ Len(AttemptsOf(QuizSlot')) = Len(AttemptsOf(QuizSlot)) + 1
                /\ SubSeq(AttemptsOf(QuizSlot'), 1, Len(AttemptsOf(QuizSlot)))
                   = AttemptsOf(QuizSlot)
           ELSE AttemptsOf(QuizSlot') = AttemptsOf(QuizSlot) ]_vars

\* content saved again over a slot that has a finished attempt
C8_Witness ==
    /\ lastOp = "saveContent"
    /\ QuizSlot.status = "filled"
    /\ Len(AttemptsOf(QuizSlot)) >= 1

\* C9: a submit on a question index that already has a recorded answer is
\* rejected and leaves the recorded answer unchanged.
C9_AnsweredIndexRejectsSubmit ==
    [][ (lastOp' \in {"submitQuizAnswer", "finishQuiz"}
         /\ currentQuiz.currentQuestion < Len(currentQuiz.answers)
         /\ At(currentQuiz.answers, currentQuiz.currentQuestion) # Null)
        => currentQuiz'.answers = currentQuiz.answers ]_vars

AtLastQuestion ==
    /\ currentQuiz.exists
    /\ Len(currentQuiz.questions) >= 1
    /\ currentQuiz.currentQuestion = Len(currentQuiz.questions) - 1

\* C10: nextQuizQuestion called on the last question finishes the quiz: an
\* Attempt is appended and the results are shown.
C10_NextOnLastFinishes ==
    [][ (lastOp' = "nextQuizQuestion" /\ AtLastQuestion)
        => /\ Len(AttemptsOf(QuizSlot')) = Len(AttemptsOf(QuizSlot)) + 1
           /\ quizResults' ]_vars

\* C10 as amended: nextQuizQuestion on the last question changes nothing;
\* the quiz is finished by the submit on the last question, which appends
\* one Attempt, shows the results and hides the controls.
C10_SubmitOnLastFinishes ==
    [][ /\ (lastOp' = "nextQuizQuestion" /\ AtLastQuestion)
           => UNCHANGED <<currentQuiz, contentSlots, quizControls, quizResults>>
        /\ lastOp' = "finishQuiz"
           => /\ AtLastQuestion
              /\ Len(AttemptsOf(QuizSlot')) = Len(AttemptsOf(QuizSlot)) + 1
              /\ quizResults' /\ ~quizControls'
        /\ (lastOp' = "submitQuizAnswer" /\ AtLastQuestion)
           => UNCHANGED <<currentQuiz, contentSlots>> ]_vars

\* nextQuizQuestion was invoked in a one-question session, still in progress
C10_Witness ==
    /\ lastOp = "nextQuizQuestion"
    /\ Len(currentQuiz.questions) = 1
    /\ currentQuiz.currentQuestion = 0
    /\ quizControls /\ ~quizResults

\* C11: in every state of a quiz session 0 <= currentQuestion <=
\* questions.length - 1 and answers.length = questions.length; retreat at
\* index 0 changes nothing in the session.
C11_SessionIndexInRange ==
    [][ /\ currentQuiz'.exists
           => /\ 0 <= currentQuiz'.currentQuestion
              /\ currentQuiz'.currentQuestion <= Len(currentQuiz'.questions) - 1
              /\ Len(currentQuiz'.answers) = Len(currentQuiz'.questions)
        /\ (lastOp' = "prevQuizQuestion" /\ currentQuiz.currentQuestion = 0)
           => currentQuiz' = currentQuiz ]_vars

\* the session has been finished and not been retaken
Finished == currentQuiz.exists /\ ~quizControls

\* C12: once a session is Finished its answers change only when a new
\* session replaces it (retakeQuiz, or the quiz opened again);
\* reviewQuizAnswers leaves the session and the slot unchanged; the answers
\* kept in the appended Attempt are not altered by a retake, by later submits
\* or by navigation.
C12_FinishedAnswersImmutable ==
    [][ /\ (Finished /\ lastOp' \notin {"retakeQuiz", "loadQuizView"})
           => currentQuiz'.answers = currentQuiz.answers
        /\ lastOp' = "reviewQuizAnswers"
           => /\ Finished
              /\ UNCHANGED <<currentQuiz, contentSlots, persisted>>
        /\ lastOp' \in {"retakeQuiz", "loadQuizView", "submitQuizAnswer",
                        "nextQuizQuestion", "prevQuizQuestion"}
           => AttemptsOf(QuizSlot') = AttemptsOf(QuizSlot) ]_vars

\* after a finish and a review the session was retaken and a different
\* answer submitted on the first question: the Attempt still holds the old one
C12_Witness ==
    /\ lastOp = "submitQuizAnswer"
    /\ Len(AttemptsOf(QuizSlot)) >= 1
    /\ Len(currentQuiz.answers) = 2
    /\ currentQuiz.answers[1] # Null
    /\ LastAttempt(QuizSlot).answers[1] # Null
    /\ currentQuiz.answers[1] # LastAttempt(QuizSlot).answers[1]

\* C13: retakeQuiz starts a new in-progress session at question index 0 with
\* the question list of the previous session, every answer null and the
\* start time read from the clock at the retake, and leaves the slot's
\* attempts, bestScore and completed (the whole slot map) unchanged.
C13_RetakeStartsFreshSession ==
    [][ lastOp' = "retakeQuiz"
        => /\ currentQuiz'.exists /\ quizControls' /\ ~quizResults'
           /\ currentQuiz'.currentQuestion = 0
           /\ currentQuiz'.questions = currentQuiz.questions
           /\ Len(currentQuiz'.answers) = Len(currentQuiz.questions)
           /\ \A i \in 1 .. Len(currentQuiz'.answers) : currentQuiz'.answers[i] = Null
           /\ currentQuiz'.startTime = now
           /\ UNCHANGED <<contentSlots, persisted>> ]_vars

\* a retake of a finished two-question session, later than its start
C13_Witness ==
    /\ lastOp = "retakeQuiz"
    /\ Len(currentQuiz.questions) = 2
    /\ Len(AttemptsOf(QuizSlot)) = 1
    /\ LastAttempt(QuizSlot).answers[2] # Null
    /\ currentQuiz.startTime > LastAttempt(QuizSlot).date - LastAttempt(QuizSlot).timeSpent

CardSlot == contentSlots["flashcards"]

\* the card under grade in a gradeFlashcard step, its state before and after
GradedCard == At(flash.deck, flash.index)
StateBefore == CardStateOf(CardSlot.srs, GradedCard.id)
StateAfter == CardSlot'.srs[GradedCard.id]

\* C14: a grade with quality < 3 sets reps = 0, interval = 0, due = today and
\* lastGrade = quality, leaves ease unchanged, and inserts exactly one more
\* occurrence of the graded card into the deck at position min(index + 2, L),
\* L the deck length before; the stored card list is unchanged.
C14_AgainResetsAndReinserts ==
    [][ (lastOp' = "gradeFlashcard" /\ studyLog'.quality < 3)
        => LET L == Len(flash.deck)
               pos == Min(flash.index + 2, L)
           IN /\ StateAfter.reps = 0
              /\ StateAfter.interval = 0
              /\ StateAfter.due = today
              /\ StateAfter.lastGrade = studyLog'.quality
              /\ StateAfter.ease = StateBefore.ease
              /\ flash'.active
              /\ Len(flash'.deck) = L + 1
              /\ flash'.total = L + 1
              /\ At(flash'.deck, pos) = GradedCard
              /\ \A i \in 0 .. pos - 1 : At(flash'.deck, i) = At(flash.deck, i)
              /\ \A i \in pos .. L - 1 : At(flash'.deck, i + 1) = At(flash.deck, i)
              /\ CardSlot'.content = CardSlot.content ]_vars

\* Again on the first of three cards, a card without state: the repeat sits
\* between the second and the third card
C14_Witness ==
    /\ lastOp = "gradeFlashcard"
    /\ studyLog.quality = 1
    /\ flash.active /\ flash.index = 1
    /\ Len(flash.deck) = 4
    /\ At(flash.deck, 2) = At(flash.deck, 0)
    /\ CardSlot.srs[At(flash.deck, 0).id].ease = InitialEase
    /\ CardSlot.srs[At(flash.deck, 0).id].reps = 0
    /\ CardSlot.srs[At(flash.deck, 0).id].lastGrade = 1

\* the interval rule of a successful grade, from the state before the grade
ScheduledInterval(st) ==
    IF st.reps = 0 THEN 1
    ELSE IF st.reps = 1 THEN 6
    ELSE MathRound(st.interval * st.ease, 100)

\* C15: a grade with quality in {3,4,5} sets interval to 1 if reps was 0, to
\* 6 if reps was 1, otherwise to round(previous interval * previous ease);
\* reps increases by exactly 1 and due = today + interval days.  From a fresh
\* card three consecutive grades of 4 give the intervals 1, 6, 15 with ease
\* staying 2.5.
C15_SuccessfulGradeSchedule ==
    [][ (lastOp' = "gradeFlashcard" /\ studyLog'.quality >= 3)
        => /\ StateAfter.interval = ScheduledInterval(StateBefore)
           /\ StateAfter.reps = StateBefore.reps + 1
           /\ StateAfter.due = today + StateAfter.interval
           /\ (grades' = 3 /\ StateAfter.reps = 3 /\ StateAfter.ease = InitialEase)
              => (StateBefore.interval = 6 /\ StateAfter.interval = 15) ]_vars

\* C16: on a grade with quality q in {3, 4, 5} the new ease is
\* max(1.3, ease + 0.1 - (5 - q) * (0.08 + (5 - q) * 0.02)): +0.10 for q = 5,
\* +0.00 for q = 4, -0.14 for q = 3, never below 1.3 (ease in hundredths);
\* hence the ease never decreases on a grade with quality >= 4.
C16_EaseUpdate ==
    [][ (lastOp' = "gradeFlashcard" /\ studyLog'.quality >= 3)
        => LET q == studyLog'.quality
               step == CASE q = 5 -> 10 [] q = 4 -> 0 [] q = 3 -> -14
           IN /\ StateAfter.ease = Max(130, StateBefore.ease + step)
              /\ StateAfter.ease >= 130
              /\ q >= 4 => StateAfter.ease >= StateBefore.ease ]_vars

\* a Hard grade has just met the floor: the card's ease was within 0.14 of
\* 1.3 and is 1.3 now
C16_Witness ==
    /\ lastOp = "gradeFlashcard"
    /\ studyLog.quality = 3
    /\ 1 \in DOMAIN CardSlot.srs
    /\ CardSlot.srs[1].ease = MinEase
    /\ CardSlot.srs[1].reps = StreakLen + 1

\* every CardState the flashcards slot stores
StoredStates == { CardSlot.srs[id] : id \in DOMAIN CardSlot.srs }

\* C17: every stored CardState has ease >= 1.3, reps >= 0, interval >= 0 and
\* lastGrade in {1, 3, 4, 5}; every grade records its quality as lastGrade,
\* in the Again branch as well as in the success branch.
C17_CardStateWellFormed ==
    /\ [](\A st \in StoredStates :
            /\ st.ease >= 130
            /\ st.reps >= 0
            /\ st.interval >= 0
            /\ st.lastGrade \in {1, 3, 4, 5})
    /\ [][ lastOp' = "gradeFlashcard"
           => StateAfter.lastGrade = studyLog'.quality ]_vars

\* an Again grade of a card that had a successful grade before has just been
\* stored: the ease it earned is kept, the grade 1 is recorded
C17_Witness ==
    /\ lastOp = "gradeFlashcard"
    /\ studyLog.quality = 1
    /\ 1 \in DOMAIN CardSlot.srs
    /\ CardSlot.srs[1].lastGrade = 1
    /\ CardSlot.srs[1].reps = 0
    /\ CardSlot.srs[1].ease > InitialEase

\* the position of a card in a list that holds it once
PositionIn(cards, c) == CHOOSE k \in 1 .. Len(cards) : cards[k] = c

\* C18: when a study session opens, the deck is a permutation of the slot's
\* cards in which every due card (no CardState, or due <= today) precedes
\* every card that is not due, and the cards of each group keep the relative
\* order they have in the slot.
C18_DeckDueFirstStable ==
    [][ (lastOp' = "openFlashcardsStudy" /\ flash'.active)
        => LET cards == StoredCards(CardSlot.content)
               srs == CardSlot.srs
               deck == flash'.deck
           IN /\ Len(deck) = Len(cards)
              /\ Range(deck) = Range(cards)
              /\ \A i, j \in 1 .. Len(deck) :
                    i < j =>
                      /\ ~(~isDue(srs, deck[i]) /\ isDue(srs, deck[j]))
                      /\ isDue(srs, deck[i]) = isDue(srs, deck[j])
                         => PositionIn(cards, deck[i]) < PositionIn(cards, deck[j]) ]_vars

\* a session has just opened on a slot with one due card behind two cards
\* that are not due: the deck differs from the stored order
C18_Witness ==
    /\ lastOp = "openFlashcardsStudy"
    /\ flash.active
    /\ Len(FilterDue(CardSlot.srs, StoredCards(CardSlot.content), FALSE)) = 2
    /\ isDue(CardSlot.srs, At(StoredCards(CardSlot.content), 2))
    /\ flash.deck # StoredCards(CardSlot.content)

\* a step of _nextFlashcard, called by the Next button or by a grade, that
\* finds the session on its last position and closes it
EndsPastLast ==
    /\ flash.active
    /\ ~flash'.active
    /\ lastOp' \in {"nextFlashcard", "gradeFlashcard"}

\* C19: in a study session that ends by moving past the last deck position,
\* every card that was due when the session opened has been the current card
\* at least once, and every card graded Again has been the current card
\* again at a later step of the same session.
C19_NoDueCardSkipped ==
    [][ EndsPastLast
        => /\ studyLog'.dueAtOpen \subseteq studyLog'.shown
           /\ studyLog'.pending = {} ]_vars

\* a session over three due cards has just ended past its last position
\* after one of its cards was graded Again
C19_Witness ==
    /\ ~flash.active
    /\ lastOp \in {"nextFlashcard", "gradeFlashcard"}
    /\ Cardinality(studyLog.dueAtOpen) = 3
    /\ studyLog.again # {}

\* how many items of the queue are of `kind` and lead to slot `type` of topic k
ItemCount(items, kind, k, type) ==
    Cardinality({ i \in 1 .. Len(items) :
                    /\ items[i].kind = kind
                    /\ items[i].topic = k
                    /\ items[i].type = type })

\* C20: over all topics the candidates of the study queue are exactly one
\* create-content item of priority 2 for every slot with status empty and
\* one review item of priority 1 for every flashcards slot that is filled
\* and not completed, and nothing else; without a candidate the result is
\* the nothing-to-do state and not an empty list.
C20_QueueCandidates ==
    [][ lastOp' = "loadStudyView"
        => LET items == studyQueue'.items
               slots(k) == AllTopics[k].contentSlots
               wanted == { <<k, type>> \in (1 .. Len(topics)) \X ContentTypes :
                             slots(k)[type].status = "empty" }
               reviews == { k \in 1 .. Len(topics) :
                              /\ slots(k)["flashcards"].status = "filled"
                              /\ ~slots(k)["flashcards"].completed }
           IN /\ \A k \in 1 .. Len(topics) :
                    /\ \A type \in ContentTypes :
                          ItemCount(items, "content", k, type)
                            = IF <<k, type>> \in wanted THEN 1 ELSE 0
                    /\ ItemCount(items, "review", k, "flashcards")
                         = IF k \in reviews THEN 1 ELSE 0
              /\ Len(items) = Cardinality(wanted) + Cardinality(reviews)
              /\ \A i \in 1 .. Len(items) :
                    items[i].priority = IF items[i].kind = "review" THEN 1 ELSE 2
              /\ studyQueue'.nothing = (wanted = {} /\ reviews = {}) ]_vars

\* the queue has just been built over two topics whose flashcards slots are
\* both filled, one of them completed, and one of whose summary slots is
\* filled: nine create-content items and one review item
C20_Witness ==
    /\ lastOp = "loadStudyView"
    /\ Len(topics) = 2
    /\ \A k \in 1 .. 2 : AllTopics[k].contentSlots["flashcards"].status = "filled"
    /\ \E k \in 1 .. 2 : AllTopics[k].contentSlots["flashcards"].completed
    /\ \E k \in 1 .. 2 : AllTopics[k].contentSlots["summary"].status = "filled"
    /\ Len(studyQueue.items) = 10
    /\ studyQueue.items[1].kind = "review"

\* C21: the displayed study queue is the first min(8, n) of the n candidates
\* ordered by priority ascending and then label ascending; it never has more
\* than 8 items and every review item shown precedes every create-content
\* item shown.
C21_QueueOrderedAndCapped ==
    [][ lastOp' = "loadStudyView"
        => LET items == studyQueue'.items
               shown == studyQueue'.shown
               n == Len(CandidateItems(AllTopics, 1))
           IN /\ Len(items) = n
              /\ Range(items) = Range(CandidateItems(AllTopics, 1))
              /\ \A i, j \in 1 .. n :
                    i < j => \/ items[i].priority < items[j].priority
                             \/ /\ items[i].priority = items[j].priority
                                /\ ~LabelBefore(items[j].label, items[i].label)
              /\ Len(shown) = Min(8, n)
              /\ \A i \in 1 .. Len(shown) : shown[i] = items[i]
              /\ Len(shown) <= 8
              /\ \A i, j \in 1 .. Len(shown) :
                    (shown[i].kind = "review" /\ shown[j].kind = "content")
                      => i < j ]_vars

\* the queue has just been built from more than 8 candidates, a review item
\* of the topic pushed last among them: it is shown first, and candidates
\* are left out
C21_Witness ==
    /\ lastOp = "loadStudyView"
    /\ Len(studyQueue.items) > 8
    /\ Len(studyQueue.shown) = 8
    /\ studyQueue.shown[1].kind = "review"
    /\ studyQueue.shown[1].topic = Len(topics)
    /\ Len(topics) = 2

\* the TOPIC_START lines of a response, in input order
RECURSIVE TopicLines(_)
TopicLines(lines) ==
    IF lines = <<>> THEN <<>>
    ELSE (IF Head(lines).marker = "topic" THEN <<Head(lines)>> ELSE <<>>)
         \o TopicLines(Tail(lines))

\* C22: parseStructureText returns one Topic per TOPIC_START line, in input
\* order, each with the six content slots in status empty, not completed and
\* with null content, with difficulty 'Medium' and category 'General' when
\* the annotation is absent.
C22_TopicPerMarkerLine ==
    (lastOp = "parseStructureText" /\ TopicLines(pResponse) # <<>>)
        => LET marks == TopicLines(pResponse)
           IN /\ Len(pResult) = Len(marks)
              /\ \A i \in 1 .. Len(marks) :
                    /\ pResult[i].name = marks[i].name
                    /\ pResult[i].contentSlots = createEmptyContentSlots
                    /\ ~marks[i].annotated
                       => /\ pResult[i].difficulty = "Medium"
                          /\ pResult[i].category = "General"

\* C23: parseStructureResponse with a blank response, or with a response
\* whose parsing throws, leaves the course's topics and structureAnalyzed
\* flag unchanged and persists nothing.
C23_FailedParseCommitsNothing ==
    [][ (/\ lastOp' = "parseStructureResponse"
         /\ pResult' \in {Outcome("blank"), Outcome("throws")})
        => /\ AllTopics' = AllTopics
           /\ structureAnalyzed' = structureAnalyzed
           /\ ~saveCalled'
           /\ stored' = stored
           /\ persisted' = persisted ]_vars

\* a blank response has just been submitted for a course that was analyzed
\* before: its topic is still there
C23_Witness ==
    /\ lastOp = "parseStructureResponse"
    /\ pResult = Outcome("blank")
    /\ Len(topics) = 1
    /\ structureAnalyzed
    /\ ~saveCalled

\* C24: in every reachable state every topic has exactly the six slot keys
\* summary, flashcards, quiz, explainer, practice and review, whatever
\* saveContent, deleteContent, the completion marks, finishQuiz and the
\* flashcard grades have done.
C24_SixSlotKeys ==
    \A k \in 1 .. Len(AllTopics) :
        DOMAIN AllTopics[k].contentSlots =
            {"summary", "flashcards", "quiz", "explainer", "practice", "review"}

\* a slot has just been deleted in a topic whose quiz was finished and whose
\* cards were graded
C24_Witness ==
    /\ lastOp = "deleteContent"
    /\ currentContent = "flashcards"
    /\ Len(contentSlots["quiz"].attempts) > 0
    /\ grades > 0
    /\ contentSlots["quiz"].status = "filled"

\* C25: in every reachable state, whether the slot is empty or filled, the
\* quiz slot carries an attempts sequence and a numeric bestScore within
\* 0..100, and the flashcards slot carries an srs map.
C25_SlotExtrasAlways ==
    \A k \in 1 .. Len(AllTopics) :
        LET slots == AllTopics[k].contentSlots
        IN /\ slots["quiz"].hasAttempts
           /\ slots["quiz"].hasBestScore
           /\ slots["quiz"].bestScore \in 0 .. 100
           /\ slots["flashcards"].hasSrs

\* the ids of the cards a flashcards slot holds
CardIdsOf(slot) ==
    { StoredCards(slot.content)[i].id : i \in 1 .. Len(StoredCards(slot.content)) }

\* C26: after any sequence of saveContent, flashcard grading and
\* deleteContent, every key of a flashcards slot's srs map is the id of a
\* card of that slot's current content.cards.
C26_SrsKeysAreCardIds ==
    \A k \in 1 .. Len(AllTopics) :
        LET slot == AllTopics[k].contentSlots["flashcards"]
        IN DOMAIN slot.srs \subseteq CardIdsOf(slot)

\* the card states of the open topic's flashcards slot
CardStates == contentSlots["flashcards"].srs

\* the id of the card on show
ShownId == At(flash.deck, flash.index).id

\* C27: a CardState is created or changed only by grading that card: opening
\* a study session, flipping, moving to the next or previous card, closing
\* the session and saving flashcards content again leave every CardState as
\* it was; a CardState is removed only by deleting the content.
C27_OnlyGradingWritesCardState ==
    [][ /\ lastOp' \notin {"gradeFlashcard", "deleteContent"} => CardStates' = CardStates
        /\ lastOp' = "gradeFlashcard"
             => /\ DOMAIN CardStates' = DOMAIN CardStates \cup {ShownId}
                /\ \A id \in DOMAIN CardStates \ {ShownId} : CardStates'[id] = CardStates[id]
        /\ lastOp' = "deleteContent" => CardStates' = <<>> ]_vars

\* flashcards content has just been saved over a deck with a graded card
C27_Witness ==
    /\ lastOp = "saveContent"
    /\ contentSlots["flashcards"].content = parseContentResponse(CardsOf(1), "flashcards")
    /\ 2 \in DOMAIN CardStates

\* the record `pp` holds `value` in `field`
Holds(pp, field, value) ==
    field \in DOMAIN pp /\ pp[field] = value

\* C29: in every reachable state, those after clearAllData or an import
\* included, a preference edit changes the personalization record of the
\* current data tree, and the persisted copy holds the edited value.
C29_EditReachesCurrentTree ==
    [][ lastOp' = "setPreference"
        => /\ Holds(settings'.personalization, pResult'.field, pResult'.value)
           /\ stored' # NoDocument
           /\ Holds(stored'.settings.personalization, pResult'.field, pResult'.value) ]_vars

\* the stored document holds what the data tree holds: the courses with
\* their topics and slots, and the settings
StoredIsCurrent ==
    /\ stored = Document(topics, structureAnalyzed, settings)
    /\ \A k \in 1 .. Len(AllTopics) : AllTopics[k].persisted = AllTopics[k].contentSlots

C30_SessionEqualsStored ==
    [][ lastOp' = "loadQuizView" /\ currentView' = "quiz"
        => LET saved == StoredQuestions(contentSlots'["quiz"].content)
               session == currentQuiz'.questions
           IN /\ Len(session) = Len(saved)
              /\ \A k \in 1 .. Len(saved) :
                    k <= Len(session)
                    => /\ session[k].options = saved[k].options
                       /\ session[k].correctAnswer = saved[k].correctAnswer ]_vars

\* the response as a whole is a JSON document: it parses without a fence
\* being cut out of it
WholeJson(response) == response.parses /\ ~response.fenced

\* C31: for the reading types parseContentResponse accepts a response if and
\* only if the response is not blank, the response as a whole is not a JSON
\* document and it has at least one heading line; an accepted payload is
\* tagged md_v1 and holds the markdown.
C31_ReadingAcceptance ==
    (lastOp = "parseContentResponse" /\ pType \in ReadingTypes)
    => /\ ~IsError(pResult)
            <=> (~pResponse.blank /\ ~WholeJson(pResponse) /\ pResponse.heading)
       /\ ~IsError(pResult)
            => pResult.schema_version = "md_v1" /\ pResult.markdown = pResponse

C33_IntervalLadder ==
    /\ [](\A st \in StoredStates :
            /\ st.reps = 0 => st.interval = 0
            /\ st.reps = 1 => st.interval = 1
            /\ st.reps = 2 => st.interval = 6
            /\ st.reps >= 3 => st.interval >= 8)
    /\ [][ (lastOp' = "gradeFlashcard" /\ studyLog'.quality >= 3)
           => /\ StateAfter.interval > StateBefore.interval
              /\ StateAfter.due > today ]_vars

\* the cards of the flashcards slot's content
SlotCards ==
    { StoredCards(CardSlot.content)[i] : i \in 1 .. Len(StoredCards(CardSlot.content)) }

\* C34: while a study session is active, after every flip, next, previous or
\* grade step, the deck is not empty, total equals deck.length, the index is
\* within 0 .. deck.length - 1, and every deck entry is a card of the slot's
\* content.
C34_SessionWellFormed ==
    flash.active
    => /\ Len(flash.deck) > 0
       /\ flash.total = Len(flash.deck)
       /\ 0 <= flash.index /\ flash.index <= Len(flash.deck) - 1
       /\ \A i \in 1 .. Len(flash.deck) : flash.deck[i] \in SlotCards

\* an Again grade has put a repeat into the deck and the session goes on,
\* past the first card
C34_Witness ==
    /\ flash.active
    /\ lastOp = "gradeFlashcard"
    /\ studyLog.quality < 3
    /\ Len(flash.deck) > Cardinality(SlotCards)
    /\ flash.index > 0

\* the steps the session `f` is away from its end: deck.length - index
Remaining(f) == IF f.active THEN Len(f.deck) - f.index ELSE 0

\* C35: grading Again never closes the study session: the deck grows by one
\* and the index moves to a valid position.  A grade of quality >= 3 and a
\* next step each bring the session one step nearer its end and close it
\* when one step was left, so that a run of such steps from an active
\* session closes it after exactly deck.length - index of them.
C35_SessionEnds ==
    [][ /\ (lastOp' = "gradeFlashcard" /\ studyLog'.quality < 3)
           => /\ flash'.active
              /\ Len(flash'.deck) = Len(flash.deck) + 1
              /\ flash'.index = flash.index + 1
              /\ flash'.index <= Len(flash'.deck) - 1
        /\ (flash.active
            /\ (lastOp' = "nextFlashcard"
                \/ (lastOp' = "gradeFlashcard" /\ studyLog'.quality >= 3)))
           => /\ Remaining(flash') = Remaining(flash) - 1
              /\ flash'.active <=> Remaining(flash) > 1 ]_vars

\* a session with a repeat in its deck has just been closed by a Good grade
C35_Witness ==
    /\ ~flash.active
    /\ lastOp = "gradeFlashcard"
    /\ studyLog.quality >= 3
    /\ studyLog.again # {}

(***************************************************************************)
(* Timer runs: the quiz session handlers with the intervals of             *)
(* startQuizTimer in view                                                  *)
(***************************************************************************)
\* the callback startQuizTimer hands to setInterval: it counts in its own
\* `seconds` and writes the text of #quiz-timer
quizTimerTick ==
    /\ quizTimer.watched
    /\ quizTimer.own \/ quizTimer.orphan
    /\ lastOp' = "quizTimerTick"
    /\ NoSave
    /\ UNCHANGED <<contentSlots, currentView, currentContent, quizVars,
                   nonQuizVars, finishedBest>>

TimerResponses == {PlainTextResponse, QuizTwo}

TimerInit == Constructed(NoTimer)

TimerNext ==
    \/ OpenContent("quiz")
    \/ GoBack
    \/ \E response \in TimerResponses : saveContent(response)
    \/ loadQuizView
    \/ SubmitUpTo(MaxFinishes)
    \/ nextQuizQuestion
    \/ retakeQuiz
    \/ quizTimerTick

TimerSpec == TimerInit /\ [][TimerNext]_vars

\* C36: at most one quiz timer callback is scheduled at any time: loadQuizView
\* and retakeQuiz leave no interval of the session they replace, no interval
\* is scheduled after finishQuiz, and a tick changes neither the session nor
\* the persisted data.
C36_SingleTimer ==
    [][ /\ ~(quizTimer'.own /\ quizTimer'.orphan)
        /\ lastOp' \in {"loadQuizView", "retakeQuiz"} => ~quizTimer'.orphan
        /\ lastOp' = "finishQuiz" => ~quizTimer'.own /\ ~quizTimer'.orphan
        /\ lastOp' = "quizTimerTick"
           => UNCHANGED <<currentQuiz, contentSlots, persisted, stored>> ]_vars

\* C37: every session loadQuizView creates holds at least one question, and no
\* recorded attempt has total = 0.
C37_SessionHasQuestion ==
    /\ currentQuiz.exists => Len(currentQuiz.questions) >= 1
    /\ \A i \in 1 .. Len(contentSlots["quiz"].attempts) :
           contentSlots["quiz"].attempts[i].total > 0

\* C38: a slot with status empty is never completed, in the Data tree and in
\* the persisted document: markContentCompleted refuses an empty slot,
\* deleteContent clears the flag, finishQuiz runs on a filled quiz slot only.
C38_EmptyNotCompleted ==
    /\ \A type \in DOMAIN contentSlots :
          contentSlots[type].status = "empty" => ~contentSlots[type].completed
    /\ \A type \in DOMAIN persisted :
          persisted[type].status = "empty" => ~persisted[type].completed
    /\ lastOp = "finishQuiz" => contentSlots["quiz"].status = "filled"

\* a quiz finished at the mastery threshold, its slot deleted afterwards
C38_Witness ==
    /\ lastOp = "deleteContent"
    /\ finishedBest # Null
    /\ finishedBest >= quizMasteryThreshold
    /\ contentSlots["quiz"].status = "empty"

\* C39: the cards of a flashcards payload that parseContentResponse returns
\* carry pairwise distinct ids, explicit or defaulted.
C39_DistinctCardIds ==
    (pType = "flashcards" /\ "cards" \in DOMAIN pResult)
        => \A i, j \in 1 .. Len(pResult.cards) :
               i # j => pResult.cards[i].id # pResult.cards[j].id

\* C40: parseStructureResponse sets structureAnalyzed only together with at
\* least one topic: a non-blank response without a TOPIC_START marker and
\* without a level-2/3 heading leaves the topics and the flag as they were.
C40_AnalyzedOnlyWithTopics ==
    [][ lastOp' = "parseStructureResponse"
        => /\ pResult' = Outcome("committed") => Len(topics') >= 1
           /\ (\A i \in 1 .. Len(pResponse') :
                   pResponse'[i].marker \notin {"topic", "heading"})
              => /\ AllTopics' = AllTopics
                 /\ structureAnalyzed' = structureAnalyzed ]_vars

====
